---- MODULE Spec2Model ----
(***************************************************************************)
(* The assembler debugger's execution engine (asmEngine): CPU state, the   *)
(* 4 KB little-endian RAM, operand resolution, step and run.               *)
(***************************************************************************)
EXTENDS Integers, Sequences, FiniteSets, TLC

(***************************************************************************)
(* Numbers.  Registers R0..R7 live in an Int32Array; SP, BP and IP are     *)
(* plain JavaScript numbers.  An exact arithmetic result r is carried as   *)
(* the pair (k, v) with r = k * 2^32 + v and v the signed 32-bit wrap.     *)
(***************************************************************************)
RAM_SIZE == 4096

INT32_MAX == 2147483647

INT32_MIN == -INT32_MAX - 1

Num(k, v) == [k |-> k, v |-> v]

\* the value an Int32Array slot keeps when the exact number w is stored
ToInt32(w) == w.v

\* w fits the signed 32-bit range (and so is a plain integer of the model)
Fits(w) == w.k = 0

\* current + src, exact
NumAdd(a, b) ==
  IF a > 0 /\ b > 0 /\ a > INT32_MAX - b
    THEN Num(1, (a - INT32_MAX - 1) + (b - INT32_MAX - 1))
  ELSE IF a < 0 /\ b < 0 /\ a < INT32_MIN - b
    THEN Num(-1, (a + INT32_MAX + 1) + (b + INT32_MAX + 1))
  ELSE Num(0, a + b)

\* current - src, exact
NumSub(a, b) ==
  IF b = INT32_MIN
    THEN (IF a >= 0 THEN Num(1, a + INT32_MIN) ELSE Num(0, (a + INT32_MAX) + 1))
    ELSE NumAdd(a, -b)

Abs(x) == IF x < 0 THEN -x ELSE x

\* current * src is modelled while the product stays a 32-bit integer
MulFits(a, b) ==
  \/ a = 0
  \/ b = 0
  \/ /\ a # INT32_MIN
     /\ b # INT32_MIN
     /\ Abs(b) <= INT32_MAX \div Abs(a)

NumMul(a, b) == Num(0, a * b)

\* a variant that rounds toward zero, as Math.trunc would
NumTruncDiv(a, b) ==
  IF a = INT32_MIN /\ b = -1 THEN Num(1, INT32_MIN)
  ELSE IF (a < 0) = (b < 0) THEN Num(0, a \div b)
  ELSE IF b = INT32_MIN THEN Num(0, 0)
  ELSE IF a % Abs(b) = 0 THEN Num(0, a \div b)
  ELSE Num(0, (a \div b) + 1)

\* Math.floor(current / src), src # 0
NumFloorDiv(a, b) ==
  IF a = INT32_MIN /\ b = -1 THEN Num(1, INT32_MIN) ELSE Num(0, a \div b)

(***************************************************************************)
(* Memory: an ArrayBuffer of RAM_SIZE zero bytes behind a DataView.  The   *)
(* model keeps the non-zero bytes only: an address outside DOMAIN ram      *)
(* holds 0.                                                                *)
(***************************************************************************)
createRAM == << >>

getUint8(ram, a) == IF a \in DOMAIN ram THEN ram[a] ELSE 0

\* the DataView accepts a word access at byte offset a
InView(a, size) == a >= 0 /\ a + size <= RAM_SIZE

\* getInt32(a, true): little-endian, signed
getInt32(ram, a) ==
  LET b0 == getUint8(ram, a)
      b1 == getUint8(ram, a + 1)
      b2 == getUint8(ram, a + 2)
      b3 == getUint8(ram, a + 3)
      hi == IF b3 >= 128 THEN b3 - 256 ELSE b3
  IN  b0 + 256 * b1 + 65536 * b2 + 16777216 * hi

\* a variant that stores the word big-endian
WordBytesBigEndian(v) ==
  << (v \div 16777216) % 256, (v \div 65536) % 256, (v \div 256) % 256, v % 256 >>

\* the four bytes setInt32(a, v, true) stores at a, a+1, a+2, a+3
WordBytes(v) ==
  << v % 256, (v \div 256) % 256, (v \div 65536) % 256, (v \div 16777216) % 256 >>

setInt32(ram, a, v) ==
  LET bytes == WordBytes(v)
      at(x) == IF x \in a..(a + 3) THEN bytes[x - a + 1] ELSE ram[x]
      dom   == {x \in (DOMAIN ram) \cup (a..(a + 3)) : at(x) # 0}
  IN  [x \in dom |-> at(x)]

setUint8(ram, a, b) ==
  LET at(x) == IF x = a THEN b % 256 ELSE ram[x]
      dom   == {x \in (DOMAIN ram) \cup {a} : at(x) # 0}
  IN  [x \in dom |-> at(x)]

(***************************************************************************)
(* Operands and instructions                                               *)
(***************************************************************************)
\* REGISTERS: register name to index
REGISTERS ==
  [n \in {"R0", "R1", "R2", "R3", "R4", "R5", "R6", "R7", "SP", "BP"} |->
     CASE n = "R0" -> 0 [] n = "R1" -> 1 [] n = "R2" -> 2 [] n = "R3" -> 3
       [] n = "R4" -> 4 [] n = "R5" -> 5 [] n = "R6" -> 6 [] n = "R7" -> 7
       [] n = "SP" -> -1 [] n = "BP" -> -2]

\* An Operand.  value is a number when name = "", and the string name
\* otherwise; offset 0 stands for an absent (or zero) offset, both falsy.
Operand(type, value, name, offset) ==
  [type |-> type, value |-> value, name |-> name, offset |-> offset]

\* operands[i] of a list that is too short
Undefined == Operand("undefined", 0, "", 0)

(***************************************************************************)
(* parseOperand.  A token is kept in the form the regular expressions of   *)
(* parseOperand take it apart into:                                        *)
(*   "#"      #N              "num"     N                                  *)
(*   "[r+n]"  [Rk+N], [Rk-N]  "[r]"     [Rk]                               *)
(*   "[n]"    [N]             "[l]"     [label]                            *)
(*   "reg"    Rk, SP, BP      "label"   any other word                     *)
(* reg is the register as written: R0..R7, SP, BP, or a name such as R8    *)
(* that REGISTERS does not hold.                                           *)
(***************************************************************************)
Token(kind, reg, sign, n, name) ==
  [kind |-> kind, reg |-> reg, sign |-> sign, n |-> n, name |-> name]

THash(n) == Token("#", "", "", n, "")

TNum(n) == Token("num", "", "", n, "")

TReg(r) == Token("reg", r, "", 0, "")

TLabel(l) == Token("label", "", "", 0, l)

TMemOff(r, sign, n) == Token("[r+n]", r, sign, n, "")

TMemReg(r) == Token("[r]", r, "", 0, "")

TMemNum(n) == Token("[n]", "", "", n, "")

TMemLabel(l) == Token("[l]", "", "", 0, l)

\* the text between the brackets of [Rk+N]
Inner(token) == token.reg \o token.sign \o ToString(token.n)

\* a name that is not in REGISTERS matches neither the offset pattern nor
\* the register tests, and parseInt of it is NaN: it is taken for a label
parseOperand(token) ==
  CASE token.kind = "#"     -> Operand("imm", token.n, "", 0)
    [] token.kind = "[r+n]" ->
         IF token.reg \in DOMAIN REGISTERS
           THEN Operand("mem", REGISTERS[token.reg], "",
                        token.n * (IF token.sign = "+" THEN 1 ELSE -1))
           ELSE Operand("mem", 0, Inner(token), 0)
    [] token.kind = "[r]"   ->
         IF token.reg \in DOMAIN REGISTERS
           THEN Operand("mem", REGISTERS[token.reg], "", 0)
           ELSE Operand("mem", 0, token.reg, 0)
    [] token.kind = "[n]"   -> Operand("mem", token.n, "", 0)
    [] token.kind = "[l]"   -> Operand("mem", 0, token.name, 0)
    [] token.kind = "reg"   ->
         IF token.reg \in DOMAIN REGISTERS
           THEN Operand("reg", REGISTERS[token.reg], "", 0)
           ELSE Operand("label", 0, token.reg, 0)
    [] token.kind = "num"   -> Operand("imm", token.n, "", 0)
    [] token.kind = "label" -> Operand("label", 0, token.name, 0)

IsString(operand) == operand.name # ""

Opnd(operands, i) == IF i <= Len(operands) THEN operands[i] ELSE Undefined

(***************************************************************************)
(* CPU                                                                     *)
(***************************************************************************)
reset ==
  [R      |-> [i \in 0..7 |-> 0],
   SP     |-> RAM_SIZE - 4,
   BP     |-> RAM_SIZE - 4,
   IP     |-> 0,
   F      |-> [ZF |-> FALSE, NF |-> FALSE, CF |-> FALSE, OF |-> FALSE],
   halted |-> FALSE,
   \* SP and BP are numbers, not Int32Array slots: hi is the k of the pair
   \* (k, v) of each, 0 while the pointer is a signed 32-bit value
   hi     |-> [SP |-> 0, BP |-> 0]]

\* regIndex === -1 ? cpu.SP : regIndex === -2 ? cpu.BP : cpu.R[regIndex]
ReadReg(cpu, regIndex) ==
  IF regIndex = -1 THEN cpu.SP
  ELSE IF regIndex = -2 THEN cpu.BP
  ELSE cpu.R[regIndex]

\* the three-way register assignment; n is a plain number
WriteReg(cpu, regIndex, n) ==
  IF regIndex = -1 THEN [cpu EXCEPT !.SP = n, !.hi.SP = 0]
  ELSE IF regIndex = -2 THEN [cpu EXCEPT !.BP = n, !.hi.BP = 0]
  ELSE [cpu EXCEPT !.R[regIndex] = n]

\* the same assignment of an exact arithmetic result: wrapped by the
\* Int32Array for R0..R7, kept as is by the number fields SP and BP
WriteResult(cpu, regIndex, w) ==
  IF regIndex = -1 THEN [cpu EXCEPT !.SP = w.v, !.hi.SP = w.k]
  ELSE IF regIndex = -2 THEN [cpu EXCEPT !.BP = w.v, !.hi.BP = w.k]
  ELSE [cpu EXCEPT !.R[regIndex] = ToInt32(w)]

\* a pointer register holds a number outside the signed 32-bit range
Wide(cpu) == cpu.hi.SP # 0 \/ cpu.hi.BP # 0

(***************************************************************************)
(* resolveOperand: [msg |-> "" or the thrown message, val, acc]            *)
(* acc is the set of word accesses attempted, as <<"r"|"w", address, word>>.*)
(***************************************************************************)
Value(v, acc) == [msg |-> "", val |-> v, acc |-> acc]

Thrown(m, acc) == [msg |-> m, val |-> 0, acc |-> acc]

HasLabel(labels, name) == name \in DOMAIN labels

\* the address a 'mem' operand denotes; def = FALSE when it is undefined/NaN
MemAddress(operand, cpu, labels) ==
  IF IsString(operand)
    THEN IF HasLabel(labels, operand.name)
           THEN [def |-> TRUE, a |-> labels[operand.name]]
           ELSE [def |-> FALSE, a |-> 0]
  ELSE IF operand.value < 0
    THEN IF operand.value >= -2
           THEN [def |-> TRUE, a |-> ReadReg(cpu, operand.value) + operand.offset]
           ELSE [def |-> FALSE, a |-> 0]
  ELSE [def |-> TRUE, a |-> operand.value]

\* a variant that admits every address inside the memory
OutOfBoundsByteWise(addr) == addr < 0 \/ addr >= RAM_SIZE

\* addr < 0 || addr >= RAM_SIZE - 3
OutOfBounds(addr) == addr < 0 \/ addr >= RAM_SIZE - 3

\* the 'mem' case once the address m is known
resolveMem(operand, ram, m) ==
  IF IsString(operand) /\ ~m.def
    THEN Thrown("Undefined label", {})
  ELSE IF ~m.def
    \* addr is undefined: both comparisons are false, getInt32 reads at 0
    THEN Value(getInt32(ram, 0), {<<"r", 0, getInt32(ram, 0)>>})
  ELSE IF OutOfBounds(m.a)
    THEN Thrown("Memory access out of bounds", {<<"r", m.a, 0>>})
  ELSE Value(getInt32(ram, m.a), {<<"r", m.a, getInt32(ram, m.a)>>})

resolveOperand(operand, cpu, ram, labels) ==
  CASE operand.type = "imm" -> Value(operand.value, {})
    [] operand.type = "reg" -> Value(ReadReg(cpu, operand.value), {})
    [] operand.type = "mem" -> resolveMem(operand, ram, MemAddress(operand, cpu, labels))
    [] operand.type = "label" ->
         IF HasLabel(labels, operand.name)
           THEN Value(labels[operand.name], {})
           ELSE Thrown("Undefined label", {})
    [] OTHER -> Thrown("TypeError: Cannot read properties of undefined", {})

(***************************************************************************)
(* setFlags                                                                *)
(***************************************************************************)
NumIsZero(w) == w.k = 0 /\ w.v = 0

NumIsNeg(w) == w.k < 0 \/ (w.k = 0 /\ w.v < 0)

\* Math.abs(result) > 0x7FFFFFFF
AbsAboveMax(w) == w.k # 0 \/ w.v = INT32_MIN

\* result > 0x7FFFFFFF || result < -0x80000000
OutsideInt32(w) == w.k # 0

setFlags(cpu, result, operation) ==
  LET zn == [cpu.F EXCEPT !.ZF = NumIsZero(result), !.NF = NumIsNeg(result)]
  IN  IF operation \in {"add", "sub"}
        THEN [cpu EXCEPT !.F = [zn EXCEPT !.CF = AbsAboveMax(result),
                                          !.OF = OutsideInt32(result)]]
        ELSE [cpu EXCEPT !.F = zn]

(***************************************************************************)
(* step: one case of the opcode switch per definition.  A case yields      *)
(*   [cpu, ram : the state the case leaves behind,                         *)
(*    msg      : "" or the message of the Error it throws,                 *)
(*    ret      : TRUE when it returns before cpu.IP++,                     *)
(*    acc      : the word accesses it attempted,                           *)
(*    capped   : TRUE when the result is a number the model cannot hold]   *)
(***************************************************************************)
Out(c, m, msg, ret, acc, capped) ==
  [cpu |-> c, ram |-> m, msg |-> msg, ret |-> ret, acc |-> acc, capped |-> capped]

Break(c, m, acc) == Out(c, m, "", FALSE, acc, FALSE)

Return(c, m, acc) == Out(c, m, "", TRUE, acc, FALSE)

Throw(c, m, msg, acc) == Out(c, m, msg, FALSE, acc, FALSE)

Capped(c, m) == Out(c, m, "", FALSE, {}, TRUE)

RangeErrorMsg == "RangeError: Offset is outside the bounds of the DataView"

stepNOP(cpu, program, ram, operands) == Break(cpu, ram, {})

\* a variant of HALT that leaves the switch with break
stepHALTBreaks(cpu, program, ram, operands) ==
  Break([cpu EXCEPT !.halted = TRUE], ram, {})

stepHALT(cpu, program, ram, operands) ==
  Return([cpu EXCEPT !.halted = TRUE], ram, {})

\* a variant that updates the flags from the value moved
MoveSetsFlags(cpu, ram, dst, src, name) ==
  IF src.msg # "" THEN Throw(cpu, ram, src.msg, src.acc)
  ELSE IF dst.type = "reg"
    THEN Break(setFlags(WriteReg(cpu, dst.value, src.val), Num(0, src.val), "logic"),
               ram, src.acc)
  ELSE Throw(cpu, ram, name \o " destination must be register", src.acc)

\* the assignment to the destination of MOV and LOAD, src resolved
Move(cpu, ram, dst, src, name) ==
  IF src.msg # "" THEN Throw(cpu, ram, src.msg, src.acc)
  ELSE IF dst.type = "reg"
    THEN Break(WriteReg(cpu, dst.value, src.val), ram, src.acc)
  ELSE Throw(cpu, ram, name \o " destination must be register", src.acc)

stepMOV(cpu, program, ram, operands) ==
  IF Len(operands) # 2 THEN Throw(cpu, ram, "MOV requires 2 operands", {})
  ELSE Move(cpu, ram, operands[1],
            resolveOperand(operands[2], cpu, ram, program.labels), "MOV")

stepLOAD(cpu, program, ram, operands) ==
  IF Len(operands) # 2 THEN Throw(cpu, ram, "LOAD requires 2 operands", {})
  ELSE Move(cpu, ram, operands[1],
            resolveOperand(operands[2], cpu, ram, program.labels), "LOAD")

\* the store of STORE, value resolved and the destination address m known
Store(cpu, ram, dst, value, m) ==
  IF value.msg # "" THEN Throw(cpu, ram, value.msg, value.acc)
  ELSE IF dst.type # "mem"
    THEN Throw(cpu, ram, "STORE destination must be memory", value.acc)
  ELSE IF ~m.def
    \* addr is undefined: both comparisons are false, setInt32 writes at 0
    THEN Break(cpu, setInt32(ram, 0, value.val), value.acc \cup {<<"w", 0, value.val>>})
  ELSE IF OutOfBounds(m.a)
    THEN Throw(cpu, ram, "Memory store out of bounds", value.acc \cup {<<"w", m.a, value.val>>})
  ELSE Break(cpu, setInt32(ram, m.a, value.val), value.acc \cup {<<"w", m.a, value.val>>})

stepSTORE(cpu, program, ram, operands) ==
  IF Len(operands) # 2 THEN Throw(cpu, ram, "STORE requires 2 operands", {})
  ELSE Store(cpu, ram, operands[1],
             resolveOperand(operands[2], cpu, ram, program.labels),
             MemAddress(operands[1], cpu, program.labels))

\* register := result, then setFlags
Assign(cpu, ram, regIndex, result, operation, acc) ==
  Break(setFlags(WriteResult(cpu, regIndex, result), result, operation), ram, acc)

\* the shared shape of ADD, SUB, MUL: dst := dst OP src, src resolved
Arith(cpu, ram, dst, src, name, operation) ==
  IF src.msg # "" THEN Throw(cpu, ram, src.msg, src.acc)
  ELSE IF dst.type = "reg"
    THEN IF operation = "mul" /\ ~MulFits(ReadReg(cpu, dst.value), src.val)
           THEN Capped(cpu, ram)
         ELSE Assign(cpu, ram, dst.value,
                     CASE operation = "add" -> NumAdd(ReadReg(cpu, dst.value), src.val)
                       [] operation = "sub" -> NumSub(ReadReg(cpu, dst.value), src.val)
                       [] OTHER -> NumMul(ReadReg(cpu, dst.value), src.val),
                     operation, src.acc)
  ELSE Throw(cpu, ram, name \o " destination must be register", src.acc)

stepADD(cpu, program, ram, operands) ==
  IF Len(operands) # 2 THEN Throw(cpu, ram, "ADD requires 2 operands", {})
  ELSE Arith(cpu, ram, operands[1],
             resolveOperand(operands[2], cpu, ram, program.labels), "ADD", "add")

stepSUB(cpu, program, ram, operands) ==
  IF Len(operands) # 2 THEN Throw(cpu, ram, "SUB requires 2 operands", {})
  ELSE Arith(cpu, ram, operands[1],
             resolveOperand(operands[2], cpu, ram, program.labels), "SUB", "sub")

stepMUL(cpu, program, ram, operands) ==
  IF Len(operands) # 2 THEN Throw(cpu, ram, "MUL requires 2 operands", {})
  ELSE Arith(cpu, ram, operands[1],
             resolveOperand(operands[2], cpu, ram, program.labels), "MUL", "mul")

\* a variant that throws on a zero divisor without touching the carry flag
DivideKeepsCarry(cpu, ram, dst, src) ==
  IF src.msg # "" THEN Throw(cpu, ram, src.msg, src.acc)
  ELSE IF src.val = 0
    THEN Throw(cpu, ram, "Division by zero", src.acc)
  ELSE IF dst.type = "reg"
    THEN Assign(cpu, ram, dst.value, NumFloorDiv(ReadReg(cpu, dst.value), src.val),
                "div", src.acc)
  ELSE Throw(cpu, ram, "DIV destination must be register", src.acc)

\* DIV, src resolved
Divide(cpu, ram, dst, src) ==
  IF src.msg # "" THEN Throw(cpu, ram, src.msg, src.acc)
  ELSE IF src.val = 0
    THEN Throw([cpu EXCEPT !.F.CF = TRUE], ram, "Division by zero", src.acc)
  ELSE IF dst.type = "reg"
    THEN Assign(cpu, ram, dst.value, NumFloorDiv(ReadReg(cpu, dst.value), src.val),
                "div", src.acc)
  ELSE Throw(cpu, ram, "DIV destination must be register", src.acc)

stepDIV(cpu, program, ram, operands) ==
  IF Len(operands) # 2 THEN Throw(cpu, ram, "DIV requires 2 operands", {})
  ELSE Divide(cpu, ram, operands[1],
              resolveOperand(operands[2], cpu, ram, program.labels))

\* CMP, a and b resolved
\* a variant that stores the difference in R0, as SUB would
CompareStores(cpu, ram, a, b) ==
  IF a.msg # "" THEN Throw(cpu, ram, a.msg, a.acc)
  ELSE IF b.msg # "" THEN Throw(cpu, ram, b.msg, a.acc \cup b.acc)
  ELSE Break(setFlags(WriteResult(cpu, 0, NumSub(a.val, b.val)), NumSub(a.val, b.val), "cmp"),
             ram, a.acc \cup b.acc)

Compare(cpu, ram, a, b) ==
  IF a.msg # "" THEN Throw(cpu, ram, a.msg, a.acc)
  ELSE IF b.msg # "" THEN Throw(cpu, ram, b.msg, a.acc \cup b.acc)
  ELSE Break(setFlags(cpu, NumSub(a.val, b.val), "cmp"), ram, a.acc \cup b.acc)

stepCMP(cpu, program, ram, operands) ==
  IF Len(operands) # 2 THEN Throw(cpu, ram, "CMP requires 2 operands", {})
  ELSE Compare(cpu, ram,
               resolveOperand(operands[1], cpu, ram, program.labels),
               resolveOperand(operands[2], cpu, ram, program.labels))

\* cpu.IP = target; return
JumpTo(cpu, ram, target) ==
  IF target.msg # "" THEN Throw(cpu, ram, target.msg, target.acc)
  ELSE Return([cpu EXCEPT !.IP = target.val], ram, target.acc)

Jump(cpu, program, ram, operands) ==
  JumpTo(cpu, ram, resolveOperand(Opnd(operands, 1), cpu, ram, program.labels))

stepJMP(cpu, program, ram, operands) ==
  IF Len(operands) # 1 THEN Throw(cpu, ram, "JMP requires 1 operand", {})
  ELSE Jump(cpu, program, ram, operands)

\* the flag test of each conditional jump
Taken(op, F) ==
  CASE op = "JZ"  -> F.ZF
    [] op = "JNZ" -> ~F.ZF
    [] op = "JC"  -> F.CF
    [] op = "JNC" -> ~F.CF
    [] op = "JG"  -> ~F.ZF /\ F.NF = F.OF
    [] op = "JGE" -> F.NF = F.OF
    [] op = "JL"  -> F.NF # F.OF
    [] op = "JLE" -> F.ZF \/ F.NF # F.OF

stepJcc(cpu, program, ram, operands, op) ==
  IF Taken(op, cpu.F) THEN Jump(cpu, program, ram, operands)
  ELSE Break(cpu, ram, {})

\* the shared shape of INC and DEC
IncDec(cpu, ram, operands, name, operation) ==
  IF Len(operands) # 1 THEN Throw(cpu, ram, name \o " requires 1 operand", {})
  ELSE IF operands[1].type = "reg"
    THEN Assign(cpu, ram, operands[1].value,
                IF operation = "add"
                  THEN NumAdd(ReadReg(cpu, operands[1].value), 1)
                  ELSE NumSub(ReadReg(cpu, operands[1].value), 1),
                operation, {})
  ELSE Throw(cpu, ram, name \o " destination must be register", {})

stepINC(cpu, program, ram, operands) == IncDec(cpu, ram, operands, "INC", "add")

stepDEC(cpu, program, ram, operands) == IncDec(cpu, ram, operands, "DEC", "sub")

stepLEA(cpu, program, ram, operands) ==
  IF Len(operands) # 2 THEN Throw(cpu, ram, "LEA requires 2 operands", {})
  ELSE IF operands[1].type = "reg"
    THEN IF operands[2].type = "label"
           THEN IF HasLabel(program.labels, operands[2].name)
                  THEN Break(WriteReg(cpu, operands[1].value,
                                      program.labels[operands[2].name]), ram, {})
                  ELSE Throw(cpu, ram, "Undefined label", {})
         ELSE IF ~IsString(operands[2])
           THEN Break(WriteReg(cpu, operands[1].value, operands[2].value), ram, {})
         \* operands[1].value is a label name: NaN, stored as 0 in R0..R7
         ELSE IF operands[1].value >= 0
           THEN Break(WriteReg(cpu, operands[1].value, 0), ram, {})
         ELSE Capped(cpu, ram)
  ELSE Throw(cpu, ram, "LEA destination must be register", {})

\* SYS 2 reads bytes from cpu.R[1] until a 0 byte, at most 256 of them;
\* getUint8 throws a RangeError outside the buffer
PrintStrThrows(cpu, ram) ==
  \/ cpu.R[1] < 0
  \/ cpu.R[1] >= RAM_SIZE
  \/ /\ cpu.R[1] + 255 >= RAM_SIZE
     /\ \A a \in cpu.R[1]..(RAM_SIZE - 1) : getUint8(ram, a) # 0

\* a variant in which every other syscall number halts as well
ExitsOnAny(syscall) == syscall >= 3

\* SYS 3 is EXIT
Exits(syscall) == syscall = 3

\* a variant in which SYS 2 leaves R1 behind the first byte it has read
SyscallAdvancesR1(cpu, ram, syscall) ==
  IF syscall.msg # "" THEN Throw(cpu, ram, syscall.msg, syscall.acc)
  ELSE IF syscall.val = 1 THEN Break(cpu, ram, syscall.acc)
  ELSE IF syscall.val = 2
    THEN IF PrintStrThrows(cpu, ram)
           THEN Throw(cpu, ram, RangeErrorMsg, syscall.acc)
           ELSE Break(WriteReg(cpu, 1, cpu.R[1] + 1), ram, syscall.acc)
  ELSE IF Exits(syscall.val)
    THEN Break([cpu EXCEPT !.halted = TRUE], ram, syscall.acc)
  ELSE Throw(cpu, ram, "Unknown syscall", syscall.acc)

\* switch (syscall)
Syscall(cpu, ram, syscall) ==
  IF syscall.msg # "" THEN Throw(cpu, ram, syscall.msg, syscall.acc)
  ELSE IF syscall.val = 1 THEN Break(cpu, ram, syscall.acc)
  ELSE IF syscall.val = 2
    THEN IF PrintStrThrows(cpu, ram)
           THEN Throw(cpu, ram, RangeErrorMsg, syscall.acc)
           ELSE Break(cpu, ram, syscall.acc)
  ELSE IF Exits(syscall.val)
    THEN Break([cpu EXCEPT !.halted = TRUE], ram, syscall.acc)
  ELSE Throw(cpu, ram, "Unknown syscall", syscall.acc)

stepSYS(cpu, program, ram, operands) ==
  IF Len(operands) # 1 THEN Throw(cpu, ram, "SYS requires 1 operand", {})
  ELSE Syscall(cpu, ram, resolveOperand(operands[1], cpu, ram, program.labels))

\* cpu.SP -= 4; bounds check; ram.setInt32(cpu.SP, word, true)
\* c is the CPU after the decrement, done the state when the store succeeds
PushWord(c, ram, word, acc, done, ret) ==
  IF c.SP < 0 THEN Throw(c, ram, "Stack overflow", acc)
  ELSE IF ~InView(c.SP, 4)
    THEN Throw(c, ram, RangeErrorMsg, acc \cup {<<"w", c.SP, word>>})
  ELSE Out(done, setInt32(ram, c.SP, word), "", ret, acc \cup {<<"w", c.SP, word>>}, FALSE)

\* PUSH, value resolved
Push(cpu, ram, value) ==
  IF value.msg # "" THEN Throw(cpu, ram, value.msg, value.acc)
  ELSE PushWord([cpu EXCEPT !.SP = cpu.SP - 4], ram, value.val, value.acc,
                [cpu EXCEPT !.SP = cpu.SP - 4], FALSE)

stepPUSH(cpu, program, ram, operands) ==
  IF Len(operands) # 1 THEN Throw(cpu, ram, "PUSH requires 1 operand", {})
  ELSE Push(cpu, ram, resolveOperand(operands[1], cpu, ram, program.labels))

\* the emptiness test of POP and RET
StackEmptyAtEnd(cpu) == cpu.SP >= RAM_SIZE

StackEmpty(cpu) == cpu.SP >= RAM_SIZE - 4

stepPOP(cpu, program, ram, operands) ==
  IF Len(operands) # 1 THEN Throw(cpu, ram, "POP requires 1 operand", {})
  ELSE IF StackEmpty(cpu) THEN Throw(cpu, ram, "Stack underflow", {})
  ELSE IF ~InView(cpu.SP, 4) THEN Throw(cpu, ram, RangeErrorMsg, {<<"r", cpu.SP, 0>>})
  ELSE IF operands[1].type = "reg"
    THEN Break(WriteReg([cpu EXCEPT !.SP = cpu.SP + 4], operands[1].value,
                        getInt32(ram, cpu.SP)),
               ram, {<<"r", cpu.SP, getInt32(ram, cpu.SP)>>})
  ELSE Throw([cpu EXCEPT !.SP = cpu.SP + 4], ram, "POP destination must be register",
             {<<"r", cpu.SP, getInt32(ram, cpu.SP)>>})

\* a variant that pushes the address of the CALL itself
ReturnAddressOfCall(cpu) == cpu.IP

\* the word CALL pushes
ReturnAddress(cpu) == cpu.IP + 1

\* CALL, target resolved
CallTo(cpu, ram, target) ==
  IF target.msg # "" THEN Throw(cpu, ram, target.msg, target.acc)
  ELSE PushWord([cpu EXCEPT !.SP = cpu.SP - 4], ram, ReturnAddress(cpu), target.acc,
                [cpu EXCEPT !.SP = cpu.SP - 4, !.IP = target.val], TRUE)

stepCALL(cpu, program, ram, operands) ==
  IF Len(operands) # 1 THEN Throw(cpu, ram, "CALL requires 1 operand", {})
  ELSE CallTo(cpu, ram, resolveOperand(operands[1], cpu, ram, program.labels))

stepRET(cpu, program, ram, operands) ==
  IF StackEmpty(cpu) THEN Throw(cpu, ram, "Stack underflow", {})
  ELSE IF ~InView(cpu.SP, 4) THEN Throw(cpu, ram, RangeErrorMsg, {<<"r", cpu.SP, 0>>})
  ELSE Return([cpu EXCEPT !.IP = getInt32(ram, cpu.SP), !.SP = cpu.SP + 4], ram,
              {<<"r", cpu.SP, getInt32(ram, cpu.SP)>>})

stepDefault(cpu, program, ram, operands) == Throw(cpu, ram, "Unknown instruction", {})

ConditionalJumps == {"JZ", "JNZ", "JC", "JNC", "JG", "JGE", "JL", "JLE"}

\* switch (op)
Dispatch(cpu, program, ram, op, operands) ==
  CASE op = "NOP"   -> stepNOP(cpu, program, ram, operands)
    [] op = "HALT"  -> stepHALT(cpu, program, ram, operands)
    [] op = "MOV"   -> stepMOV(cpu, program, ram, operands)
    [] op = "LOAD"  -> stepLOAD(cpu, program, ram, operands)
    [] op = "STORE" -> stepSTORE(cpu, program, ram, operands)
    [] op = "ADD"   -> stepADD(cpu, program, ram, operands)
    [] op = "SUB"   -> stepSUB(cpu, program, ram, operands)
    [] op = "MUL"   -> stepMUL(cpu, program, ram, operands)
    [] op = "DIV"   -> stepDIV(cpu, program, ram, operands)
    [] op = "CMP"   -> stepCMP(cpu, program, ram, operands)
    [] op = "JMP"   -> stepJMP(cpu, program, ram, operands)
    [] op \in ConditionalJumps -> stepJcc(cpu, program, ram, operands, op)
    [] op = "INC"   -> stepINC(cpu, program, ram, operands)
    [] op = "DEC"   -> stepDEC(cpu, program, ram, operands)
    [] op = "LEA"   -> stepLEA(cpu, program, ram, operands)
    [] op = "SYS"   -> stepSYS(cpu, program, ram, operands)
    [] op = "PUSH"  -> stepPUSH(cpu, program, ram, operands)
    [] op = "POP"   -> stepPOP(cpu, program, ram, operands)
    [] op = "CALL"  -> stepCALL(cpu, program, ram, operands)
    [] op = "RET"   -> stepRET(cpu, program, ram, operands)
    [] OTHER        -> stepDefault(cpu, program, ram, operands)

(***************************************************************************)
(* What a call of step leaves behind: the state, the exception that        *)
(* escaped (err), and what it did (op: the opcode dispatched or "none").   *)
(***************************************************************************)
NoError == [name |-> "none", line |-> 0, message |-> ""]

AsmError(line, message) == [name |-> "AsmError", line |-> line, message |-> message]

\* program.ast[cpu.IP] is undefined and destructuring it throws, before the try
TypeError == [name |-> "TypeError", line |-> 0,
              message |-> "Cannot destructure property 'op' of 'instruction'"]

Stepped(c, m, err, op, ret, acc, capped) ==
  [cpu |-> c, ram |-> m, err |-> err, op |-> op, ret |-> ret, acc |-> acc,
   capped |-> capped]

\* cpu.halted || cpu.IP >= program.ast.length
Finished(cpu, program) == cpu.halted \/ cpu.IP >= Len(program.ast)

\* the end of step once the switch has left o behind: the catch clause
\* wraps a thrown Error, a return skips cpu.IP++
Complete(instruction, o) ==
  IF o.msg # ""
    THEN Stepped(o.cpu, o.ram, AsmError(instruction.line, o.msg), instruction.op,
                 FALSE, o.acc, FALSE)
  ELSE IF o.ret
    THEN Stepped(o.cpu, o.ram, NoError, instruction.op, TRUE, o.acc, o.capped)
  ELSE Stepped([o.cpu EXCEPT !.IP = o.cpu.IP + 1], o.ram, NoError, instruction.op,
               FALSE, o.acc, o.capped)

\* a variant of the early return that also advances IP
StopAndAdvance(cpu) == [cpu EXCEPT !.halted = TRUE, !.IP = cpu.IP + 1]

\* the early return of step: cpu.halted = true
Stop(cpu) == [cpu EXCEPT !.halted = TRUE]

step(cpu, program, ram) ==
  IF Finished(cpu, program)
    THEN Stepped(Stop(cpu), ram, NoError, "none", TRUE, {}, FALSE)
  ELSE IF cpu.IP < 0
    THEN Stepped(cpu, ram, TypeError, "none", FALSE, {}, FALSE)
  \* execution with a pointer beyond 32 bits is not followed further
  ELSE IF Wide(cpu)
    THEN Stepped(cpu, ram, NoError, "none", FALSE, {}, TRUE)
  ELSE Complete(program.ast[cpu.IP + 1],
                Dispatch(cpu, program, ram, program.ast[cpu.IP + 1].op,
                         program.ast[cpu.IP + 1].operands))

(***************************************************************************)
(* assemble.  A source is a sequence of lines; a line is kept in the form  *)
(* the tests of assemble take it apart into:                               *)
(*   "blank"  an empty line or a comment line                              *)
(*   "dir"    a line that starts with '.': cmd and its values              *)
(*   "label"  a line with a ':': name, and after the colon nothing, a      *)
(*            directive (cmd, args) or an instruction (op, tokens)         *)
(*   "instr"  any other line: op and the operand tokens                    *)
(* Values are written "v1, v2, v3"; a value is an integer or text that     *)
(* parseInt turns into NaN.                                                *)
(***************************************************************************)
DATA_SIZE == 1024

Line(kind, name, cmd, args, op, tokens) ==
  [kind |-> kind, name |-> name, cmd |-> cmd, args |-> args, op |-> op,
   tokens |-> tokens]

LBlank == Line("blank", "", "", << >>, "", << >>)

LDir(cmd, args) == Line("dir", "", cmd, args, "", << >>)

LLabel(name) == Line("label", name, "", << >>, "", << >>)

LLabelDir(name, cmd, args) == Line("label", name, cmd, args, "", << >>)

\* the same with a comment at the end of the line
LLabelDirComment(name, cmd, args, comment) == Line("label", name, cmd, args, "", comment)

LLabelIns(name, op, tokens) == Line("label", name, "", << >>, op, tokens)

LIns(op, tokens) == Line("instr", "", "", << >>, op, tokens)

Val(n) == [nan |-> FALSE, n |-> n]

NaN == [nan |-> TRUE, n |-> 0]

\* directive.slice(1).join(' ').split(','): no text gives one empty value
ValuesOf(args) == IF args = << >> THEN <<NaN>> ELSE args

\* the state of pass 1
Pass1Init ==
  [ast |-> << >>, labels |-> << >>, data |-> << >>, currentAddress |-> 0,
   inDataSection |-> FALSE, dataPtr |-> 0, textStart |-> 0, err |-> NoError]

\* dataSection[dataPtr++] = byte, for each byte; a Uint8Array drops the
\* writes past its end
Emit(st, bytes) ==
  [st EXCEPT !.data = IF Len(@) + Len(bytes) <= DATA_SIZE THEN @ \o bytes
                      ELSE SubSeq(@ \o bytes, 1, DATA_SIZE),
             !.dataPtr = @ + Len(bytes)]

\* the bytes one value adds: val & 0xFF, (val >> 8) & 0xFF, ... for .WORD
\* (size 4), val & 0xFF for .BYTE (size 1)
ValueBytes(v, size) == IF size = 4 THEN WordBytes(v.n) ELSE <<v.n % 256>>

\* the bytes of all the values, in order
AllBytes(values, size) ==
  [b \in 1..(size * Len(values)) |->
     ValueBytes(values[(b - 1) \div size + 1], size)[((b - 1) % size) + 1]]

\* the loop over the values of .WORD and .BYTE: it throws at the first
\* value that is NaN, and emits the bytes of all of them otherwise
EmitValues(st, values, size, lineNum) ==
  IF \E j \in 1..Len(values) : values[j].nan
    THEN [st EXCEPT !.err = AsmError(lineNum, IF size = 4 THEN "Invalid .WORD value"
                                                         ELSE "Invalid .BYTE value")]
    ELSE Emit(st, AllBytes(values, size))

\* ast.push({op, operands: [], line: i + 1, source: trimmed}); currentAddress++
Skeleton(st, op, tokens, lineNum) ==
  IF st.inDataSection THEN st
  ELSE [st EXCEPT !.ast = Append(@, [op |-> op, operands |-> << >>, line |-> lineNum,
                                     source |-> tokens]),
                  !.currentAddress = @ + 1]

\* case '.ORG'
Org(st, line, lineNum) ==
  IF line.args = << >> THEN [st EXCEPT !.err = AsmError(lineNum, ".ORG requires address")]
  ELSE IF line.args[1].nan THEN [st EXCEPT !.err = AsmError(lineNum, "Invalid .ORG address")]
  ELSE [st EXCEPT !.currentAddress = line.args[1].n]

\* a line that starts with '.': the switch on the directive; any other
\* word falls through to the instruction branch
Directive(st, line, lineNum) ==
  CASE line.cmd = ".DATA" -> [st EXCEPT !.inDataSection = TRUE]
    [] line.cmd = ".TEXT" -> [st EXCEPT !.inDataSection = FALSE,
                                        !.textStart = st.currentAddress]
    [] line.cmd = ".ORG"  -> Org(st, line, lineNum)
    [] line.cmd = ".WORD" ->
         IF st.inDataSection THEN EmitValues(st, ValuesOf(line.args), 4, lineNum) ELSE st
    [] line.cmd = ".BYTE" ->
         IF st.inDataSection THEN EmitValues(st, ValuesOf(line.args), 1, lineNum) ELSE st
    [] OTHER -> Skeleton(st, line.cmd, << >>, lineNum)

\* labels[labelName] = inDataSection ? dataPtr : currentAddress
Define(labels, name, address) ==
  [l \in (DOMAIN labels) \cup {name} |-> IF l = name THEN address ELSE labels[l]]

\* a line with a ':': the label, then .WORD after the colon (no other
\* directive, and no instruction, is looked at)
LabelLine(st, line, lineNum) ==
  IF line.cmd = ".WORD"
    THEN EmitValues([st EXCEPT !.labels = Define(@, line.name,
                                                 IF st.inDataSection THEN st.dataPtr
                                                                     ELSE st.currentAddress)],
                    ValuesOf(line.args), 4, lineNum)
    ELSE [st EXCEPT !.labels = Define(@, line.name,
                                      IF st.inDataSection THEN st.dataPtr
                                                          ELSE st.currentAddress)]

\* the body of the loop of pass 1 for one line
Pass1Line(st, line, lineNum) ==
  CASE line.kind = "blank" -> st
    [] line.kind = "dir"   -> Directive(st, line, lineNum)
    [] line.kind = "label" -> LabelLine(st, line, lineNum)
    [] OTHER               -> Skeleton(st, line.op, line.tokens, lineNum)

RECURSIVE Pass1(_, _, _)
Pass1(st, source, i) ==
  IF i > Len(source) \/ st.err # NoError THEN st
  ELSE Pass1(Pass1Line(st, source[i], i), source, i + 1)

\* pass 2 skips empty lines, comments, lines that start with '.' and
\* lines that end with ':'
Skipped(line) ==
  \/ line.kind \in {"blank", "dir"}
  \/ line.kind = "label" /\ line.cmd = "" /\ line.op = ""

\* a value of a directive as pass 2 reads it: a token of its own
ValueToken(v) == IF v.nan THEN TLabel("?") ELSE TNum(v.n)

\* tokens[1..] of a line pass 2 does not skip: trimmed.split(/\s+/)
OperandTokens(line) ==
  IF line.kind = "instr" THEN line.tokens
  ELSE IF line.cmd # ""
    THEN <<TLabel(line.cmd)>> \o [j \in 1..Len(line.args) |-> ValueToken(line.args[j])]
           \o line.tokens
  ELSE <<TLabel(line.op)>> \o line.tokens

ParseOperands(tokens) == [j \in 1..Len(tokens) |-> parseOperand(tokens[j])]

\* ast[astIndex].operands = operands; astIndex++
\* past the end of ast the assignment throws a TypeError
Pass2Line(st, line, lineNum) ==
  IF Skipped(line) THEN st
  ELSE IF st.astIndex >= Len(st.ast)
    THEN [st EXCEPT !.err = [name |-> "TypeError", line |-> 0,
                             message |-> "Cannot set properties of undefined"]]
  ELSE [st EXCEPT !.ast[st.astIndex + 1].operands = ParseOperands(OperandTokens(line)),
                  !.astIndex = @ + 1]

RECURSIVE Pass2(_, _, _)
Pass2(st, source, i) ==
  IF i > Len(source) \/ st.err # NoError THEN st
  ELSE Pass2(Pass2Line(st, source[i], i), source, i + 1)

\* no Program: the state variable program before handleAssemble, and the
\* outcome of an assemble that threw
Null == [ast |-> << >>, labels |-> << >>, dataSection |-> << >>, assembled |-> FALSE]

\* return {lines, ast, labels, dataSection, textStart}
Assembled(p1, p2) ==
  IF p1.err # NoError THEN [err |-> p1.err, program |-> Null]
  ELSE IF p2.err # NoError THEN [err |-> p2.err, program |-> Null]
  ELSE [err |-> NoError,
        program |-> [ast |-> p2.ast, labels |-> p1.labels, dataSection |-> p1.data,
                     assembled |-> TRUE]]

Operands(p1, source) ==
  Pass2([ast |-> p1.ast, astIndex |-> 0, err |-> NoError], source, 1)

Passes(p1, source) == Assembled(p1, Operands(p1, source))

assemble(source) == Passes(Pass1(Pass1Init, source, 1), source)

(***************************************************************************)
(* Sources.                                                                *)
(***************************************************************************)
Ins(op, tokens) == [op |-> op, source |-> tokens]

\* the data section of the sources executed
\*   .DATA / array: / .WORD 7, -3 / count: / .WORD 2 / .TEXT
DataLines ==
  <<LDir(".DATA", << >>), LLabel("array"), LDir(".WORD", <<Val(7), Val(-3)>>),
    LLabel("count"), LDir(".WORD", <<Val(2)>>), LDir(".TEXT", << >>)>>

\* the source with that data section and one line per instruction
Listing(instrs) ==
  DataLines \o [i \in 1..Len(instrs) |-> LIns(instrs[i].op, instrs[i].source)]

\* handleAssemble: a fresh RAM with the data section copied to address 0
loadData(dataSection) ==
  LET dom == {a \in 0..(Len(dataSection) - 1) : dataSection[a + 1] # 0}
  IN  [a \in dom |-> dataSection[a + 1]]

\* the instructions tried one at a time after each prefix
Pool ==
  { Ins("NOP", << >>), Ins("HALT", << >>),
    Ins("MOV", <<TReg("R0"), THash(-2)>>), Ins("MOV", <<TReg("SP"), TReg("R1")>>),
    Ins("MOV", <<THash(1), TReg("R0")>>), Ins("MOV", <<TReg("R0")>>),
    Ins("MOV", <<TReg("R2"), TLabel("count")>>), Ins("MOV", <<TReg("R2"), TLabel("nowhere")>>),
    Ins("LOAD", <<TReg("R3"), TMemReg("SP")>>), Ins("LOAD", <<TReg("R3"), TMemReg("R1")>>),
    Ins("LOAD", <<TReg("R3"), TMemOff("R1", "+", 4)>>), Ins("LOAD", <<TReg("R3"), TMemOff("BP", "-", 4)>>),
    Ins("LOAD", <<TReg("BP"), TMemNum(4092)>>), Ins("LOAD", <<TReg("R3"), TMemNum(4093)>>),
    Ins("LOAD", <<TReg("R3"), TMemLabel("array")>>), Ins("LOAD", <<TReg("R3"), TMemLabel("nowhere")>>),
    Ins("LOAD", <<TReg("R3"), TMemNum(-5)>>), Ins("LOAD", <<TMemNum(0), TReg("R3")>>),
    Ins("STORE", <<TMemReg("SP"), TReg("R0")>>), Ins("STORE", <<TMemReg("R1"), TReg("R0")>>),
    Ins("STORE", <<TMemOff("R1", "+", 4), TReg("R0")>>), Ins("STORE", <<TMemOff("BP", "-", 8), TReg("R0")>>),
    Ins("STORE", <<TMemOff("SP", "+", 4), THash(258)>>),
    Ins("STORE", <<TMemNum(4092), TReg("R0")>>), Ins("STORE", <<TMemNum(4090), TReg("R0")>>),
    Ins("STORE", <<TMemNum(4093), TReg("R0")>>), Ins("STORE", <<TMemNum(2), TMemNum(0)>>),
    Ins("STORE", <<TReg("R0"), TReg("R1")>>), Ins("STORE", <<TMemLabel("nowhere"), THash(-1)>>),
    Ins("STORE", <<TMemLabel("count"), TMemNum(4096)>>),
    Ins("ADD", <<TReg("R0"), THash(1)>>), Ins("ADD", <<TReg("SP"), TNum(4)>>),
    Ins("ADD", <<TMemNum(0), THash(1)>>),
    Ins("SUB", <<TReg("R0"), TReg("R1")>>), Ins("MUL", <<TReg("R0"), THash(3)>>),
    Ins("DIV", <<TReg("R0"), THash(0)>>), Ins("DIV", <<TReg("R0"), THash(2)>>),
    Ins("DIV", <<TMemNum(0), TReg("R5")>>),
    Ins("CMP", <<TReg("R0"), THash(0)>>), Ins("CMP", <<TMemNum(4), TMemNum(5000)>>),
    Ins("CMP", <<TMemLabel("array"), TLabel("count")>>),
    Ins("INC", <<TReg("R0")>>), Ins("DEC", <<TReg("SP")>>), Ins("INC", <<THash(1)>>),
    Ins("LEA", <<TReg("R0"), TLabel("count")>>), Ins("LEA", <<TReg("BP"), TNum(16)>>),
    Ins("JMP", <<THash(0)>>), Ins("JMP", <<THash(-1)>>), Ins("JMP", <<TNum(9)>>),
    Ins("JMP", << >>), Ins("JMP", <<TLabel("nowhere")>>),
    Ins("JZ", <<THash(0)>>), Ins("JNZ", <<THash(-1)>>), Ins("JC", <<THash(0)>>),
    Ins("JNC", <<TNum(9)>>), Ins("JG", <<THash(0)>>), Ins("JGE", <<THash(0)>>),
    Ins("JL", <<THash(0)>>), Ins("JLE", <<THash(0)>>), Ins("JZ", << >>), Ins("JNZ", << >>),
    Ins("SYS", <<THash(1)>>), Ins("SYS", <<THash(2)>>), Ins("SYS", <<THash(3)>>),
    Ins("SYS", <<THash(9)>>), Ins("SYS", << >>),
    Ins("PUSH", <<TReg("R0")>>), Ins("PUSH", <<TMemNum(4095)>>), Ins("PUSH", <<THash(-2)>>),
    Ins("POP", <<TReg("R3")>>), Ins("POP", <<TReg("SP")>>), Ins("POP", <<THash(1)>>),
    Ins("POP", <<TMemNum(0)>>),
    Ins("CALL", <<THash(0)>>), Ins("CALL", <<THash(-1)>>), Ins("CALL", <<TNum(9)>>),
    Ins("RET", << >>),
    Ins("AND", <<TReg("R0"), THash(1)>>), Ins("JN", <<THash(0)>>),
    Ins("SWAP", <<TReg("R0"), TReg("R1")>>) }

\* the instruction sequences that bring the CPU from reset to the states
\* in which the pool instructions are tried
Prefixes ==
  { << >>,
    <<Ins("MOV", <<TReg("SP"), THash(0)>>)>>,
    <<Ins("MOV", <<TReg("SP"), THash(2)>>)>>,
    <<Ins("MOV", <<TReg("SP"), THash(-4)>>)>>,
    <<Ins("MOV", <<TReg("SP"), THash(4096)>>)>>,
    <<Ins("MOV", <<TReg("SP"), THash(4100)>>)>>,
    <<Ins("MOV", <<TReg("R0"), THash(-2)>>), Ins("MOV", <<TReg("R1"), THash(4090)>>)>>,
    <<Ins("MOV", <<TReg("R1"), THash(8)>>), Ins("CMP", <<TReg("R0"), THash(0)>>)>>,
    <<Ins("PUSH", <<THash(-1)>>), Ins("CMP", <<TReg("R0"), THash(1)>>)>>,
    <<Ins("CALL", <<THash(1)>>)>> }

\* whole programs: calls and returns, loops, halting
Samples ==
  { \* a call whose callee pushes and pops
    <<Ins("CALL", <<THash(3)>>), Ins("SYS", <<THash(1)>>), Ins("HALT", << >>),
      Ins("PUSH", <<TReg("R0")>>), Ins("POP", <<TReg("R1")>>), Ins("RET", << >>)>>,
    \* nested calls
    <<Ins("CALL", <<THash(2)>>), Ins("HALT", << >>), Ins("CALL", <<THash(4)>>),
      Ins("RET", << >>), Ins("RET", << >>)>>,
    \* the callee overwrites the saved return word
    <<Ins("CALL", <<THash(2)>>), Ins("HALT", << >>),
      Ins("STORE", <<TMemReg("SP"), THash(4)>>), Ins("RET", << >>), Ins("SYS", <<THash(3)>>)>>,
    \* the callee leaves a word on the stack
    <<Ins("CALL", <<THash(2)>>), Ins("HALT", << >>), Ins("PUSH", <<THash(1)>>),
      Ins("RET", << >>)>>,
    \* a loop that never ends
    <<Ins("INC", <<TReg("R0")>>), Ins("JMP", <<THash(0)>>)>>,
    \* a counted loop that exits through SYS 3
    <<Ins("MOV", <<TReg("R0"), THash(2)>>), Ins("DEC", <<TReg("R0")>>),
      Ins("JNZ", <<THash(1)>>), Ins("SYS", <<THash(3)>>)>>,
    \* a result that is exactly the smallest 32-bit value
    <<Ins("MOV", <<TReg("R0"), THash(-INT32_MAX)>>), Ins("DEC", <<TReg("R0")>>)>>,
    \* an overflow, then instructions whose results fit
    <<Ins("MOV", <<TReg("R0"), THash(INT32_MAX)>>), Ins("INC", <<TReg("R0")>>),
      Ins("DIV", <<TReg("R0"), THash(-1)>>), Ins("DIV", <<TReg("R0"), THash(1)>>),
      Ins("MUL", <<TReg("R0"), THash(0)>>), Ins("CMP", <<TReg("R0"), TReg("R0")>>),
      Ins("ADD", <<TReg("R1"), THash(5)>>)>>,
    \* arithmetic on the pointer registers at the ends of the 32-bit range
    <<Ins("MOV", <<TReg("SP"), THash(INT32_MAX)>>), Ins("INC", <<TReg("SP")>>)>>,
    <<Ins("MOV", <<TReg("BP"), THash(INT32_MIN)>>), Ins("SUB", <<TReg("BP"), THash(1)>>)>>,
    <<Ins("MOV", <<TReg("R7"), THash(INT32_MAX)>>), Ins("ADD", <<TReg("R7"), TReg("R7")>>)>> }

\* a comment after an instruction, as split(/\s+/) leaves it: the marker
\* ";" or "//" and the words after it, tokens like any other
Comment(marker, words) == <<TLabel(marker)>> \o words

\* one word more than the data image holds, the ends of the signed 32-bit
\* range among them
ManyWords ==
  [i \in 1..(DATA_SIZE \div 4 + 1) |->
     Val(CASE i = 1 -> INT32_MIN [] i = 2 -> INT32_MAX [] i = 3 -> -1 [] OTHER -> i - 130)]

\* sources that exercise the directives and the labels of assemble
AsmSources ==
  { \* a data section larger than the data image:  .DATA / big: / .WORD v1, ..., v257
    <<LDir(".DATA", << >>), LLabel("big"), LDir(".WORD", ManyWords)>>,
    \* words at the ends of the range:  .DATA / .WORD -2147483648, 2147483647, -1, 256
    <<LDir(".DATA", << >>),
      LDir(".WORD", <<Val(INT32_MIN), Val(INT32_MAX), Val(-1), Val(256)>>)>>,
    \* a forward reference:  JMP end / NOP / end: / HALT
    <<LIns("JMP", <<TLabel("end")>>), LIns("NOP", << >>), LLabel("end"),
      LIns("HALT", << >>)>>,
    \* an origin:  .ORG 5 / start: / NOP / JMP start
    <<LDir(".ORG", <<Val(5)>>), LLabel("start"), LIns("NOP", << >>),
      LIns("JMP", <<TLabel("start")>>)>>,
    \* an origin in the middle:  NOP / .ORG 0 / back: / HALT / JMP back
    <<LIns("NOP", << >>), LDir(".ORG", <<Val(0)>>), LLabel("back"),
      LIns("HALT", << >>), LIns("JMP", <<TLabel("back")>>)>>,
    \* several sections:
    \*   .DATA / a: / .WORD 1 / .TEXT / main: / NOP / CALL next /
    \*   .DATA / b: / .BYTE 2, -1 / c: / .WORD 3 / .TEXT / next: / HALT
    <<LDir(".DATA", << >>), LLabel("a"), LDir(".WORD", <<Val(1)>>),
      LDir(".TEXT", << >>), LLabel("main"), LIns("NOP", << >>),
      LIns("CALL", <<TLabel("next")>>),
      LDir(".DATA", << >>), LLabel("b"), LDir(".BYTE", <<Val(2), Val(-1)>>),
      LLabel("c"), LDir(".WORD", <<Val(3)>>),
      LDir(".TEXT", << >>), LLabel("next"), LIns("HALT", << >>)>>,
    \* blank lines, data directives in the text section, an unknown directive:
    \*   ; comment / .WORD 9 / .ALIGN / top: / NOP / .BYTE 1 / end: / HALT
    <<LBlank, LDir(".WORD", <<Val(9)>>), LDir(".ALIGN", << >>), LLabel("top"),
      LIns("NOP", << >>), LDir(".BYTE", <<Val(1)>>), LLabel("end"),
      LIns("HALT", << >>)>>,
    \* a directive after a label:  .DATA / x: .WORD 1, 2 / y: / .TEXT / HALT
    <<LDir(".DATA", << >>), LLabelDir("x", ".WORD", <<Val(1), Val(2)>>), LLabel("y"),
      LDir(".TEXT", << >>), LIns("HALT", << >>)>>,
    \* bytes after a label:
    \*   .DATA / a: / .WORD 5 / t: .BYTE 1, -2 / u: / .WORD 7 / .TEXT / HALT
    <<LDir(".DATA", << >>), LLabel("a"), LDir(".WORD", <<Val(5)>>),
      LLabelDir("t", ".BYTE", <<Val(1), Val(-2)>>), LLabel("u"),
      LDir(".WORD", <<Val(7)>>), LDir(".TEXT", << >>), LIns("HALT", << >>)>>,
    \* an instruction after a label:  loop: DEC R0 / JNZ loop
    <<LLabelIns("loop", "DEC", <<TReg("R0")>>), LIns("JNZ", <<TLabel("loop")>>)>>,
    \* a data section below the text section, and an unknown directive:
    \*   .TEXT / .GLOBAL main / MOV R0, #1 / HALT / .DATA / x: .WORD 1, 2
    <<LDir(".TEXT", << >>), LDir(".GLOBAL", <<NaN>>),
      LIns("MOV", <<TReg("R0"), THash(1)>>), LIns("HALT", << >>),
      LDir(".DATA", << >>), LLabelDir("x", ".WORD", <<Val(1), Val(2)>>)>>,
    \* values that are not integers, outside the data section and after a label:
    \*   NOP / .WORD x      .BYTE x / HALT      .DATA / t: .BYTE x / .TEXT / .ALIGN
    <<LIns("NOP", << >>), LDir(".WORD", <<NaN>>)>>,
    <<LDir(".BYTE", <<NaN>>), LIns("HALT", << >>)>>,
    <<LDir(".DATA", << >>), LLabelDir("t", ".BYTE", <<NaN>>), LDir(".TEXT", << >>),
      LDir(".ALIGN", << >>)>>,
    \* the same after a label in the data section:  .DATA / w: .WORD 1, x
    <<LDir(".DATA", << >>), LLabelDir("w", ".WORD", <<Val(1), NaN>>)>>,
    \* registers that do not exist:  MOV R8, #1 / LOAD R0, [R9+4] / PUSH [R8] / HALT
    <<LIns("MOV", <<TReg("R8"), THash(1)>>),
      LIns("LOAD", <<TReg("R0"), TMemOff("R9", "+", 4)>>),
      LIns("PUSH", <<TMemReg("R8")>>), LIns("HALT", << >>)>>,
    \* comments after instructions:  MOV R0, #0 ; R0 = sum / INC R0 / HALT // stop
    <<LIns("MOV", <<TReg("R0"), THash(0)>> \o Comment(";", <<TReg("R0"), TLabel("="), TLabel("sum")>>)),
      LIns("INC", <<TReg("R0")>>),
      LIns("HALT", Comment("//", <<TLabel("stop")>>))>>,
    \* directives that are rejected
    <<LIns("NOP", << >>), LDir(".ORG", << >>)>>,
    <<LDir(".ORG", <<NaN>>)>>,
    <<LDir(".DATA", << >>), LDir(".WORD", <<Val(4), NaN>>)>>,
    <<LDir(".DATA", << >>), LDir(".BYTE", << >>)>> }

\* the words of a comment that are no registers and no numbers
Words(names) == [j \in 1..Len(names) |-> TLabel(names[j])]

\* sum_array.asm
SumArray ==
  <<LBlank,
    LBlank,
    LBlank,
    LDir(".DATA", << >>),
    LLabelDir("array", ".WORD", <<Val(1), Val(2), Val(3), Val(4), Val(5)>>),
    LLabelDir("count", ".WORD", <<Val(5)>>),
    LBlank,
    LDir(".TEXT", << >>),
    LBlank,
    LIns("MOV", <<TReg("R1"), TLabel("array")>>
                  \o Comment(";", <<TReg("R1")>> \o Words(<<"=", "array", "address">>))),
    LIns("LOAD", <<TReg("R2"), TMemLabel("count")>>
                   \o Comment(";", <<TReg("R2")>> \o Words(<<"=", "count">>))),
    LIns("MOV", <<TReg("R0"), THash(0)>>
                  \o Comment(";", <<TReg("R0")>> \o Words(<<"=", "sum", "(result)">>))),
    LIns("MOV", <<TReg("R3"), THash(0)>>
                  \o Comment(";", <<TReg("R3")>> \o Words(<<"=", "index">>))),
    LBlank,
    LLabel("loop"),
    LIns("CMP", <<TReg("R3"), TReg("R2")>>
                  \o Comment(";", Words(<<"Compare", "index", "with", "count">>))),
    LIns("JZ", <<TLabel("done")>>
                 \o Comment(";", Words(<<"Jump", "if", "equal", "(done)">>))),
    LBlank,
    LIns("LOAD", <<TReg("R4"), TMemReg("R1")>>
                   \o Comment(";", Words(<<"Load", "array[index]">>))),
    LIns("ADD", <<TReg("R0"), TReg("R4")>>
                  \o Comment(";", Words(<<"sum", "+=", "array[index]">>))),
    LIns("ADD", <<TReg("R1"), THash(4)>>
                  \o Comment(";", Words(<<"Move", "to", "next", "word", "(4", "bytes)">>))),
    LIns("ADD", <<TReg("R3"), THash(1)>> \o Comment(";", Words(<<"index++">>))),
    LBlank,
    LIns("JMP", <<TLabel("loop")>> \o Comment(";", Words(<<"Continue", "loop">>))),
    LBlank,
    LLabel("done"),
    LIns("HALT", Comment(";", Words(<<"Stop", "execution">>)))>>

\* factorial.asm
Factorial ==
  <<LBlank,
    LBlank,
    LBlank,
    LDir(".DATA", << >>),
    LLabelDirComment("number", ".WORD", <<Val(5)>>,
                     Comment(";", Words(<<"Calculate", "factorial", "of">>) \o <<TNum(5)>>)),
    LDir(".TEXT", << >>),
    LLabel("start"),
    LIns("LOAD", <<TReg("R0"), TMemLabel("number")>>
                   \o Comment(";", Words(<<"Load", "N", "into">>) \o <<TReg("R0")>>)),
    LIns("CALL", <<TLabel("factorial")>>
                   \o Comment(";", Words(<<"Call", "factorial", "function">>))),
    LIns("SYS", <<THash(1)>> \o Comment(";", Words(<<"Print", "result">>))),
    LIns("HALT", Comment(";", Words(<<"Stop", "execution">>))),
    LBlank,
    LLabel("factorial"),
    LBlank,
    LBlank,
    LBlank,
    LBlank,
    LIns("PUSH", <<TReg("R1")>> \o Comment(";", Words(<<"Save">>) \o <<TReg("R1")>>)),
    LIns("PUSH", <<TReg("R2")>> \o Comment(";", Words(<<"Save">>) \o <<TReg("R2")>>)),
    LBlank,
    LBlank,
    LIns("CMP", <<TReg("R0"), THash(1)>>),
    LIns("JLE", <<TLabel("base_case")>>),
    LBlank,
    LBlank,
    LIns("MOV", <<TReg("R1"), TReg("R0")>>
                  \o Comment(";", Words(<<"Save", "n", "in">>) \o <<TReg("R1")>>)),
    LIns("DEC", <<TReg("R0")>> \o Comment(";", <<TReg("R0")>> \o Words(<<"=", "n-1">>))),
    LIns("CALL", <<TLabel("factorial")>>
                   \o Comment(";", <<TReg("R0")>> \o Words(<<"=", "factorial(n-1)">>))),
    LIns("MUL", <<TReg("R0"), TReg("R1")>>
                  \o Comment(";", <<TReg("R0")>> \o Words(<<"=", "n", "*", "factorial(n-1)">>))),
    LIns("JMP", <<TLabel("factorial_end")>>),
    LBlank,
    LLabel("base_case"),
    LIns("MOV", <<TReg("R0"), THash(1)>>
                  \o Comment(";", Words(<<"Return">>) \o <<TNum(1)>>
                                     \o Words(<<"for", "base", "case">>))),
    LBlank,
    LLabel("factorial_end"),
    LIns("POP", <<TReg("R2")>> \o Comment(";", Words(<<"Restore">>) \o <<TReg("R2")>>)),
    LIns("POP", <<TReg("R1")>> \o Comment(";", Words(<<"Restore">>) \o <<TReg("R1")>>)),
    LIns("RET", Comment(";", Words(<<"Return", "to", "caller">>))),
    LBlank,
    LBlank>>

\* arithmetic at the edges: comparisons after an addition that has overflowed
\*   MOV R0, #2147483647 / INC R0 / CMP R1, #1 / JL 0
\*   MOV R0, #2147483647 / INC R0 / CMP R0, R1 / JG 0
EdgeSamples ==
  { <<Ins("MOV", <<TReg("R0"), THash(INT32_MAX)>>), Ins("INC", <<TReg("R0")>>),
      Ins("CMP", <<TReg("R1"), THash(1)>>), Ins("JL", <<TNum(0)>>)>>,
    <<Ins("MOV", <<TReg("R0"), THash(INT32_MAX)>>), Ins("INC", <<TReg("R0")>>),
      Ins("CMP", <<TReg("R0"), TReg("R1")>>), Ins("JG", <<TNum(0)>>)>>,
    \* quotients that are no integers, of either sign, and at the ends of
    \* the 32-bit range
    <<Ins("MOV", <<TReg("R0"), THash(-7)>>), Ins("DIV", <<TReg("R0"), THash(2)>>)>>,
    <<Ins("MOV", <<TReg("R0"), THash(7)>>), Ins("DIV", <<TReg("R0"), THash(-2)>>)>>,
    <<Ins("MOV", <<TReg("R0"), THash(-7)>>), Ins("DIV", <<TReg("R0"), THash(-2)>>)>>,
    <<Ins("MOV", <<TReg("R0"), THash(INT32_MIN)>>), Ins("DIV", <<TReg("R0"), THash(INT32_MAX)>>)>>,
    <<Ins("MOV", <<TReg("R0"), THash(INT32_MAX)>>), Ins("DIV", <<TReg("R0"), THash(INT32_MIN)>>)>>,
    <<Ins("MOV", <<TReg("R0"), THash(INT32_MIN)>>), Ins("DIV", <<TReg("R0"), THash(-3)>>)>>,
    <<Ins("MOV", <<TReg("R0"), THash(INT32_MIN)>>), Ins("DIV", <<TReg("R0"), THash(-1)>>)>>,
    \* a word pushed and popped again: into a general register, into BP and
    \* into SP itself, from the reset stack pointer, from one that is no
    \* multiple of 4 and from one above the reset value
    <<Ins("PUSH", <<THash(-2)>>), Ins("POP", <<TReg("R3")>>)>>,
    <<Ins("PUSH", <<TMemLabel("array")>>), Ins("POP", <<TReg("BP")>>)>>,
    <<Ins("PUSH", <<TReg("SP")>>), Ins("POP", <<TReg("SP")>>)>>,
    <<Ins("PUSH", <<THash(5)>>), Ins("POP", <<TReg("SP")>>)>>,
    <<Ins("MOV", <<TReg("SP"), THash(4094)>>), Ins("PUSH", <<THash(-1)>>),
      Ins("POP", <<TReg("R2")>>)>>,
    <<Ins("MOV", <<TReg("SP"), THash(4096)>>), Ins("PUSH", <<THash(1)>>),
      Ins("POP", <<TReg("R1")>>)>>,
    \* operands whose difference does not fit 32 bits
    <<Ins("MOV", <<TReg("R0"), THash(INT32_MIN)>>), Ins("CMP", <<TReg("R0"), THash(1)>>),
      Ins("JL", <<TNum(0)>>)>>,
    <<Ins("MOV", <<TReg("R0"), THash(INT32_MAX)>>), Ins("CMP", <<TReg("R0"), THash(-1)>>),
      Ins("JG", <<TNum(0)>>)>> }

\* the sample programs the editor loads
SampleSources == {SumArray, Factorial}

\* the sources of the sessions: every pool instruction after every
\* prefix, the whole programs, and the sources that exercise assemble
\* programs that fill the stack:  loop: / PUSH R0 / JMP loop   and   f: / CALL f
DeepSources ==
  { <<LLabel("loop"), LIns("PUSH", <<TReg("R0")>>), LIns("JMP", <<TLabel("loop")>>)>>,
    <<LLabel("f"), LIns("CALL", <<TLabel("f")>>)>> }

Sources ==
  {Listing(p \o <<i>>) : p \in Prefixes, i \in Pool}
    \cup DeepSources
    \cup {Listing(p) : p \in Samples}
    \cup {Listing(p) : p \in EdgeSamples}
    \cup AsmSources
    \cup SampleSources

\* the sources run is called on: every pool instruction from reset and
\* after a comparison, and the whole programs
RunSources ==
  {Listing(p \o <<i>>) :
     p \in {q \in Prefixes : Len(q) = 0 \/ (Len(q) = 2 /\ q[2].op = "CMP" /\ q[1].op = "MOV")},
     i \in Pool}
    \cup {Listing(p) : p \in Samples}

(***************************************************************************)
(* The debugger session: the caller holds one program, one CPU and one     *)
(* RAM, and calls step and run on them.                                    *)
(***************************************************************************)
\* the largest maxSteps a caller passes to run
MaxSteps == 3

\* breakpoints are set at instruction addresses 0..MaxBreak
MaxBreak == 2

\* the number of step calls explored from reset
MaxClock == 6

\* the calls of step a session on src may make: a session that only steps a
\* source that fills the stack goes on until the stack of RAM_SIZE \div 4
\* words has overflowed; r.result = -1 as long as run was never called
StepBudget(src, r) ==
  IF src \in DeepSources /\ r.result = -1 /\ r.pc = "idle"
    THEN 2 * (RAM_SIZE \div 4) + MaxClock
    ELSE MaxClock

VARIABLES
  source,   \* the text in the editor
  program,  \* the Program assembled from the source, Null before
  cpu,      \* the CPU
  ram,      \* the RAM
  err,      \* the exception that escaped the last call, or NoError
  pre,      \* cpu and ram as they were before the last call
  last,     \* the last call: which, the opcode it dispatched, its accesses
  run,      \* the activation of run: pc, steps, maxSteps, breakpoints
  hist,     \* what the execution since reset has done
  clock,    \* step calls made since reset
  pyodideInstance,  \* the cached runtime: the initialization that made it, 0 for null
  pyodideLoading,   \* the promise of the initialization begun last, 0 for null
  inits,    \* the initializations begun so far: how far each has come
  calls     \* the calls of initPy made so far: what each found and received

session == <<source, program, cpu, ram, err, pre, last, run, hist, clock>>

python == <<pyodideInstance, pyodideLoading, inits, calls>>

vars == <<session, python>>

NoFrame == [ret |-> -1, sp |-> -1, clean |-> FALSE]

Last(call, op, ret, acc, addr) ==
  [call |-> call, op |-> op, ret |-> ret, acc |-> acc, addr |-> addr]

\* a session on one of the sources: no program yet, a CPU from reset and
\* an empty RAM
Start(sources) ==
  /\ source \in sources
  /\ program = Null
  /\ cpu = reset
  /\ ram = createRAM
  /\ err = NoError
  /\ pre = [cpu |-> cpu, ram |-> ram]
  /\ last = Last("init", "none", FALSE, {}, -1)
  /\ run = [pc |-> "idle", steps |-> 0, maxSteps |-> 0, breakpoints |-> {},
            executed |-> {}, result |-> -1,
            onSys |-> FALSE, sys |-> << >>, handled |-> << >>]
  /\ hist = [halts |-> FALSE, beyond |-> FALSE, frames |-> << >>, popped |-> NoFrame]
  /\ clock = 0
  /\ pyodideInstance = 0
  /\ pyodideLoading = 0
  /\ inits = << >>
  /\ calls = << >>

Init == Start(Sources)

\* a word written at a overlaps the slot below the frame's stack pointer
Overlaps(a, frame) == a > frame.sp - 8 /\ a < frame.sp

Smudge(frames, writes) ==
  [i \in 1..Len(frames) |->
     IF \E w \in writes : Overlaps(w[2], frames[i])
       THEN [frames[i] EXCEPT !.clean = FALSE]
       ELSE frames[i]]

\* the words a successful step wrote
Writes(st) == {w \in st.acc : w[1] = "w" /\ st.err = NoError}

Did(st, op) == st.err = NoError /\ st.op = op

\* the shadow call stack after the step
Frames(marked, c, st) ==
  IF Did(st, "CALL")
    THEN Append(marked, [ret |-> c.IP + 1, sp |-> c.SP, clean |-> TRUE])
  ELSE IF Did(st, "RET") /\ Len(marked) > 0
    THEN SubSeq(marked, 1, Len(marked) - 1)
  ELSE marked

\* the step executed HALT, or SYS with an operand that resolves to 3
HaltOrExit(c, m, st) ==
  \/ Did(st, "HALT")
  \/ /\ Did(st, "SYS")
     /\ resolveOperand(program.ast[c.IP + 1].operands[1], c, m, program.labels).val = 3

\* hist after the call of step that took the CPU c and the RAM m to st
Observe(h, c, m, st) ==
  [halts  |-> h.halts \/ HaltOrExit(c, m, st),
   beyond |-> h.beyond \/ (~c.halted /\ (c.IP >= Len(program.ast) \/ c.IP < 0)),
   frames |-> Frames(Smudge(h.frames, Writes(st)), c, st),
   popped |-> IF Did(st, "RET") /\ Len(h.frames) > 0
                THEN Smudge(h.frames, Writes(st))[Len(h.frames)]
                ELSE NoFrame]

\* the effect of one call of step on the session
Call(st, call) ==
  /\ ~st.capped
  /\ cpu' = st.cpu
  /\ ram' = st.ram
  /\ err' = st.err
  /\ pre' = [cpu |-> cpu, ram |-> ram]
  /\ last' = Last(call, st.op, st.ret, st.acc, cpu.IP)
  /\ hist' = Observe(hist, cpu, ram, st)
  /\ clock' = clock + 1
  /\ UNCHANGED python

\* handleAssemble with the outcome a of assemble(code): setProgram, setError
\* and setRam with the data section copied to address 0; a failure is
\* caught and shown, and leaves the program and the RAM as they were
Load(a) ==
  /\ program' = IF a.err = NoError THEN a.program ELSE program
  /\ ram' = IF a.err = NoError THEN loadData(a.program.dataSection) ELSE ram
  /\ err' = a.err
  /\ pre' = [cpu |-> cpu, ram |-> ram]
  /\ last' = Last("assemble", "none", FALSE, {}, -1)
  /\ UNCHANGED <<source, cpu, run, hist, clock, python>>

\* the caller assembles the source before executing it
HandleAssemble ==
  /\ run.pc = "idle"
  /\ clock = 0
  /\ Load(assemble(source))

\* handleStep: the caller steps once
Step ==
  /\ program.assembled
  /\ run.pc = "idle"
  /\ clock < StepBudget(source, run)
  /\ Call(step(cpu, program, ram), "step")
  /\ UNCHANGED <<source, program, run>>

\* run is entered with opts {maxSteps, breakpoints, onSys}; onSys is TRUE
\* when the caller passes a handler.  run.sys lists the syscall codes of
\* the SYS instructions this call executed, run.handled the codes the
\* handler was invoked with: run destructures onSys and never calls it.
RunCall(maxSteps, breakpoints, onSys) ==
  /\ program.assembled
  /\ run.pc = "idle"
  /\ clock + maxSteps <= MaxClock
  /\ run' = [pc |-> "loop", steps |-> 0, maxSteps |-> maxSteps,
             breakpoints |-> breakpoints, executed |-> {}, result |-> -1,
             onSys |-> onSys, sys |-> << >>, handled |-> << >>]
  /\ err' = NoError
  /\ pre' = [cpu |-> cpu, ram |-> ram]
  /\ last' = Last("run", "none", FALSE, {}, cpu.IP)
  /\ UNCHANGED <<source, program, cpu, ram, hist, clock, python>>

\* a variant of the loop condition that is off by one
ContinueOneMore(r, c) == ~c.halted /\ r.steps <= r.maxSteps

\* while (!cpu.halted && steps < maxSteps)
Continue(r, c) == ~c.halted /\ r.steps < r.maxSteps

\* a variant that tests the breakpoint only after the first iteration
BreakpointHitLate(r, c) == c.IP \in r.breakpoints /\ r.steps > 0

\* if (breakpoints.has(cpu.IP)) break
BreakpointHit(r, c) == c.IP \in r.breakpoints

\* the syscall code of the SYS instruction at c.IP, 0 when there is none
SysCode(c, m) ==
  IF c.IP >= 0 /\ c.IP < Len(program.ast)
       /\ program.ast[c.IP + 1].op = "SYS" /\ Len(program.ast[c.IP + 1].operands) = 1
    THEN resolveOperand(program.ast[c.IP + 1].operands[1], c, m, program.labels).val
    ELSE 0

\* run after the call of step at address ip: steps++, unless step threw;
\* code is the syscall code when the step executed a SYS
Iterate(r, ip, st, code) ==
  IF st.err # NoError
    THEN [r EXCEPT !.pc = "idle", !.executed = @ \cup {ip}]
    ELSE [r EXCEPT !.steps = @ + 1,
                   !.executed = IF st.op = "none" THEN @ ELSE @ \cup {ip},
                   !.sys = IF st.op = "SYS" THEN Append(@, code) ELSE @]

\* one iteration of the loop: step(cpu, program, ram); steps++
\* an exception of step leaves run without a result
RunStep ==
  /\ run.pc = "loop"
  /\ Continue(run, cpu)
  /\ ~BreakpointHit(run, cpu)
  /\ Call(step(cpu, program, ram), "runStep")
  /\ run' = Iterate(run, cpu.IP, step(cpu, program, ram), SysCode(cpu, ram))
  /\ UNCHANGED <<source, program>>

\* return { steps }
RunReturn ==
  /\ run.pc = "loop"
  /\ ~Continue(run, cpu) \/ BreakpointHit(run, cpu)
  /\ run' = [run EXCEPT !.pc = "idle", !.result = run.steps]
  /\ pre' = [cpu |-> cpu, ram |-> ram]
  /\ last' = Last("runReturn", "none", FALSE, {}, cpu.IP)
  /\ UNCHANGED <<source, program, cpu, ram, err, hist, clock, python>>

BreakpointSets == {{}} \cup {{a} : a \in 0..MaxBreak}

\* the options run is called with: breakpoints without a handler, or a
\* handler without breakpoints
RunOptions ==
  {[breakpoints |-> b, onSys |-> FALSE] : b \in BreakpointSets}
    \cup {[breakpoints |-> {}, onSys |-> TRUE]}

Next ==
  \/ HandleAssemble
  \/ Step
  \/ \E maxSteps \in 0..MaxSteps, opts \in RunOptions :
       RunCall(maxSteps, opts.breakpoints, opts.onSys)
  \/ RunStep
  \/ RunReturn

Spec == Init /\ [][Next]_vars

\* run is one synchronous call: once entered, its loop runs to its end
FairSpec ==
  Start(RunSources) /\ [][Next]_vars /\ WF_vars(RunStep) /\ WF_vars(RunReturn)

(***************************************************************************)
(* The Python runtime.  initPy runs without interruption up to its first  *)
(* await: the two tests, the start of the initialization and the          *)
(* assignment to pyodideLoading are one step.  The initialization then    *)
(* waits three times: for the script, for loadPyodide and for the set-up  *)
(* of the restricted environment.                                         *)
(***************************************************************************)
MaxCalls == 5

\* what an initialization in flight awaits: the script, then loadPyodide,
\* then runPython; it ends "fulfilled" or "rejected"
Stages == {"script", "loadPyodide", "runPython"}

\* an initialization is in flight from its start to its last await
InFlight(init) == init \in Stages

\* a variant in which a call never joins the initialization in flight
SharesNever(loading) == FALSE

\* if (pyodideLoading) return pyodideLoading
Shares(loading) == loading # 0

\* what a call of initPy finds and what it receives
Received(kind, id) ==
  [kind |-> kind, id |-> id,
   inFlight |-> {i \in 1..Len(inits) : InFlight(inits[i])},
   cached |-> pyodideInstance]

\* initPy up to its return: the cached instance, or the promise in
\* pyodideLoading, or the promise of an initialization it starts; thrown is
\* TRUE when the start throws before the first await (no document): the
\* catch clause has run and the promise is rejected when it is assigned
InitPy(thrown) ==
  /\ Len(calls) < MaxCalls
  /\ IF pyodideInstance # 0
       THEN /\ ~thrown
            /\ calls' = Append(calls, Received("instance", pyodideInstance))
            /\ UNCHANGED <<pyodideInstance, pyodideLoading, inits>>
     ELSE IF Shares(pyodideLoading)
       THEN /\ ~thrown
            /\ calls' = Append(calls, Received("promise", pyodideLoading))
            /\ UNCHANGED <<pyodideInstance, pyodideLoading, inits>>
     ELSE /\ inits' = Append(inits, IF thrown THEN "rejected" ELSE "script")
          /\ pyodideLoading' = Len(inits) + 1
          /\ calls' = Append(calls, Received("promise", Len(inits) + 1))
          /\ UNCHANGED pyodideInstance
  /\ UNCHANGED session

\* an await of initialization i completes; after the last one
\* pyodideInstance = pyodide and the promise is fulfilled
Await(i) ==
  /\ InFlight(inits[i])
  /\ inits' = [inits EXCEPT ![i] = CASE @ = "script"      -> "loadPyodide"
                                      [] @ = "loadPyodide" -> "runPython"
                                      [] OTHER             -> "fulfilled"]
  /\ pyodideInstance' = IF inits[i] = "runPython" THEN i ELSE pyodideInstance
  /\ UNCHANGED <<pyodideLoading, calls, session>>

\* an await of initialization i throws: catch { pyodideLoading = null; throw }
Fail(i) ==
  /\ InFlight(inits[i])
  /\ inits' = [inits EXCEPT ![i] = "rejected"]
  /\ pyodideLoading' = 0
  /\ UNCHANGED <<pyodideInstance, calls, session>>

PyNext ==
  \/ \E thrown \in BOOLEAN : InitPy(thrown)
  \/ \E i \in 1..Len(inits) : Await(i)
  \/ \E i \in 1..Len(inits) : Fail(i)

\* the callers of initPy next to a session that does nothing
PySpec == Start({SumArray}) /\ [][PyNext]_vars

TypeOK ==
  /\ cpu.SP \in Int /\ cpu.BP \in Int /\ cpu.IP \in Int
  /\ \A i \in 0..7 : cpu.R[i] \in INT32_MIN..INT32_MAX
  /\ \A a \in DOMAIN ram : a \in 0..(RAM_SIZE - 1) /\ ram[a] \in 1..255
  /\ run.pc \in {"idle", "loop"}
  /\ clock \in 0..StepBudget(source, run)

(***************************************************************************)
(* Properties                                                              *)
(***************************************************************************)
\* the last call was a call of step, by the caller or by run
Stepping == last.call \in {"step", "runStep"}

\* the instruction the last call of step fetched
Fetched == program.ast[last.addr + 1]

InList(ip) == ip >= 0 /\ ip < Len(program.ast)

\* byte a of memory m
ByteAt(m, a) == IF a \in DOMAIN m THEN m[a] ELSE 0

\* bytes a..a+3 of m are the little-endian two's-complement form of v
HoldsWord(m, a, v) ==
  /\ v >= INT32_MIN /\ v <= INT32_MAX
  /\ ByteAt(m, a) = v % 256
  /\ ByteAt(m, a + 1) = (v \div 256) % 256
  /\ ByteAt(m, a + 2) = (v \div 65536) % 256
  /\ ByteAt(m, a + 3) = (v \div 16777216) % 256

\* m2 is m1 but for bytes a..a+3
SameBut(m1, m2, a) ==
  \A x \in ((DOMAIN m1) \cup (DOMAIN m2)) \ (a..(a + 3)) : ByteAt(m1, x) = ByteAt(m2, x)

\* C1: step on a CPU that is halted, or whose IP is at or past the end of
\* the instruction list, sets halted and changes nothing else; and no call
\* of step or run clears halted.
C1_FinishedStepOnlyHalts ==
  /\ (Stepping /\ (pre.cpu.halted \/ pre.cpu.IP >= Len(program.ast)))
       => /\ cpu.halted
          /\ cpu.R = pre.cpu.R /\ cpu.SP = pre.cpu.SP /\ cpu.BP = pre.cpu.BP
          /\ cpu.IP = pre.cpu.IP /\ cpu.F = pre.cpu.F
          /\ ram = pre.ram
          /\ err = NoError
  /\ pre.cpu.halted => cpu.halted

\* a CPU that ran past the end was halted by one step and is stepped again
C1_Witness ==
  /\ last.call = "step"
  /\ pre.cpu.halted
  /\ pre.cpu.IP >= Len(program.ast)
  /\ cpu.halted

\* C2: a step that completes on a running CPU with IP inside the list and
\* whose opcode is not JMP, a taken conditional jump, CALL or RET leaves
\* IP = IP before + 1 (NOP, HALT, SYS, not-taken jumps, data, arithmetic
\* and stack opcodes).
C2_IpAdvancesByOne ==
  ( /\ Stepping
    /\ err = NoError
    /\ ~pre.cpu.halted
    /\ InList(pre.cpu.IP)
    /\ last.op \notin {"JMP", "CALL", "RET"}
    /\ ~(last.op \in ConditionalJumps /\ Taken(last.op, pre.cpu.F)) )
  => cpu.IP = pre.cpu.IP + 1

\* C2, amended: such a step leaves IP = IP before + 1 unless its opcode
\* is HALT, and a HALT leaves IP where it was.
C2_IpAdvancesUnlessHalt ==
  ( /\ Stepping
    /\ err = NoError
    /\ ~pre.cpu.halted
    /\ InList(pre.cpu.IP)
    /\ last.op \notin {"JMP", "CALL", "RET"}
    /\ ~(last.op \in ConditionalJumps /\ Taken(last.op, pre.cpu.F)) )
  => cpu.IP = IF last.op = "HALT" THEN pre.cpu.IP ELSE pre.cpu.IP + 1

\* a HALT executed after other instructions: IP stays on the HALT
C2_Witness ==
  /\ Stepping
  /\ err = NoError
  /\ last.op = "HALT"
  /\ pre.cpu.IP > 0
  /\ ~pre.cpu.halted
  /\ cpu.halted
  /\ cpu.IP = pre.cpu.IP

\* C3: a failing step raises an AsmError whose line is the source line of
\* the instruction at the instruction pointer; nothing else escapes step.
C3_FailureIsAsmError ==
  (Stepping /\ err # NoError)
  => /\ err.name = "AsmError"
     /\ InList(pre.cpu.IP)
     /\ err.line = program.ast[pre.cpu.IP + 1].line

\* C4: a step that fails leaves registers, SP, BP, IP, halted and memory as
\* they were; only the carry flag set by a division by zero may differ.
C4_FailedStepIsAtomic ==
  (Stepping /\ err # NoError)
  => /\ ram = pre.ram
     /\ \/ cpu = pre.cpu
        \/ /\ err.message = "Division by zero"
           /\ cpu = [pre.cpu EXCEPT !.F.CF = TRUE]

OutOfBoundsMessages ==
  {"Memory access out of bounds", "Memory store out of bounds", RangeErrorMsg}

StoppedAtBreakpoint ==
  /\ last.call = "runReturn"
  /\ ~cpu.halted
  /\ run.result < run.maxSteps

\* C6: when run returns because IP is a breakpoint address A, IP = A and
\* that call of run has not executed the instruction at A.
C6_BreakpointStopsBefore ==
  StoppedAtBreakpoint
  => /\ cpu.IP \in run.breakpoints
     /\ cpu.IP \notin run.executed

\* run executed instructions and then stopped on a breakpoint
C6_Witness ==
  /\ StoppedAtBreakpoint
  /\ run.result > 0
  /\ cpu.IP \in run.breakpoints

\* C7: run terminates; it returns at most maxSteps, and when it returns
\* without error the CPU is halted, or IP is a breakpoint, or the count is
\* maxSteps; reaching maxSteps raises no error.
C7_RunTerminates ==
  /\ [](last.call = "runReturn"
          => /\ run.result >= 0 /\ run.result <= run.maxSteps
             /\ err = NoError
             /\ \/ cpu.halted
                \/ cpu.IP \in run.breakpoints
                \/ run.result = run.maxSteps)
  /\ (run.pc = "loop") ~> (run.pc = "idle")

\* run used up maxSteps on a program that is still running
C7_Witness ==
  /\ last.call = "runReturn"
  /\ run.maxSteps > 0
  /\ run.result = run.maxSteps
  /\ ~cpu.halted
  /\ cpu.IP \notin run.breakpoints
  /\ InList(cpu.IP)

MatchedReturn ==
  /\ Stepping
  /\ last.op = "RET"
  /\ err = NoError
  /\ hist.popped # NoFrame
  /\ hist.popped.clean
  /\ pre.cpu.SP = hist.popped.sp - 4

\* C9: the RET matching a CALL executed at index i with stack pointer s
\* sets IP = i + 1 and SP = s.
C9_CallRetPairing ==
  MatchedReturn => cpu.IP = hist.popped.ret /\ cpu.SP = hist.popped.sp

\* a callee that pushed and popped returns to its caller
C9_Witness ==
  /\ MatchedReturn
  /\ cpu.IP = hist.popped.ret
  /\ Len(hist.frames) = 0
  /\ DOMAIN ram # DOMAIN loadData(program.dataSection)

\* the value of the register named r
RegValue(c, r) == IF r = "SP" THEN c.SP ELSE IF r = "BP" THEN c.BP ELSE c.R[REGISTERS[r]]

\* the address [Rk], [Rk+N], [Rk-N] denotes
Denoted(c, token) ==
  RegValue(c, token.reg) + (IF token.sign = "-" THEN -token.n ELSE token.n)

RegisterIndirect(token) == token.kind \in {"[r]", "[r+n]"}

\* C10: LOAD dst, [Rk+N] loads the word at (value of Rk) + N and
\* STORE [Rk+N], src writes the word at that address, for Rk any of
\* R0..R7, SP, BP.
C10_RegisterIndirect ==
  (Stepping /\ err = NoError /\ InList(last.addr) /\ Len(Fetched.source) = 2)
  => /\ (last.op = "LOAD" /\ RegisterIndirect(Fetched.source[2])
           /\ Fetched.source[1].kind = "reg")
          => HoldsWord(pre.ram, Denoted(pre.cpu, Fetched.source[2]),
                       RegValue(cpu, Fetched.source[1].reg))
     /\ (last.op = "STORE" /\ RegisterIndirect(Fetched.source[1]))
          => \E x \in last.acc :
               /\ x[1] = "w"
               /\ x[2] = Denoted(pre.cpu, Fetched.source[1])
               /\ HoldsWord(ram, x[2], x[3])

\* the first operand of the instruction fetched, as the register it names
Dest == Fetched.operands[1].value

\* the exact result of the ADD, SUB, INC or DEC the last step executed
ExactSum ==
  CASE last.op = "ADD" ->
         NumAdd(ReadReg(pre.cpu, Dest),
                resolveOperand(Fetched.operands[2], pre.cpu, pre.ram, program.labels).val)
    [] last.op = "SUB" ->
         NumSub(ReadReg(pre.cpu, Dest),
                resolveOperand(Fetched.operands[2], pre.cpu, pre.ram, program.labels).val)
    [] last.op = "INC" -> NumAdd(ReadReg(pre.cpu, Dest), 1)
    [] OTHER -> NumSub(ReadReg(pre.cpu, Dest), 1)

\* C11: after ADD, SUB, INC or DEC the carry and the overflow flag are
\* both true when the exact result is outside the signed 32-bit range and
\* both false when it is inside, the ends of the range included.
C11_CarryOverflowExact ==
  (Stepping /\ err = NoError /\ last.op \in {"ADD", "SUB", "INC", "DEC"})
  => /\ cpu.F.CF = ~Fits(ExactSum)
     /\ cpu.F.OF = ~Fits(ExactSum)

\* the exact result of the MUL or DIV the last step executed
ExactProduct ==
  IF last.op = "MUL"
    THEN NumMul(ReadReg(pre.cpu, Dest),
                resolveOperand(Fetched.operands[2], pre.cpu, pre.ram, program.labels).val)
    ELSE NumFloorDiv(ReadReg(pre.cpu, Dest),
                     resolveOperand(Fetched.operands[2], pre.cpu, pre.ram, program.labels).val)

\* C12: after MUL, or DIV by a non-zero divisor, CF and OF are true when
\* the exact result does not fit 32 bits and false when it fits, whatever
\* they were before.
C12_MulDivRecomputeFlags ==
  (Stepping /\ err = NoError /\ last.op \in {"MUL", "DIV"})
  => /\ cpu.F.CF = ~Fits(ExactProduct)
     /\ cpu.F.OF = ~Fits(ExactProduct)

\* C13: after a CMP whose difference fits 32 bits CF and OF are false,
\* whatever they were before.
C13_CmpClearsStaleFlags ==
  ( /\ Stepping /\ err = NoError /\ last.op = "CMP"
    /\ Fits(NumSub(resolveOperand(Fetched.operands[1], pre.cpu, pre.ram, program.labels).val,
                   resolveOperand(Fetched.operands[2], pre.cpu, pre.ram, program.labels).val)) )
  => ~cpu.F.CF /\ ~cpu.F.OF

\* c2 is c1 but for the instruction pointer and the register regIndex
SameButReg(c1, c2, regIndex) ==
  /\ c2.F = c1.F
  /\ c2.halted = c1.halted
  /\ \A i \in (0..7) \ {regIndex} : c2.R[i] = c1.R[i]
  /\ regIndex # -1 => (c2.SP = c1.SP /\ c2.hi.SP = c1.hi.SP)
  /\ regIndex # -2 => (c2.BP = c1.BP /\ c2.hi.BP = c1.hi.BP)

ZeroDivisor ==
  /\ Stepping
  /\ last.op = "DIV"
  /\ Len(Fetched.operands) = 2
  /\ resolveOperand(Fetched.operands[2], pre.cpu, pre.ram, program.labels).msg = ""
  /\ resolveOperand(Fetched.operands[2], pre.cpu, pre.ram, program.labels).val = 0

\* C15: DIV by a divisor that resolves to 0 fails with a division-by-zero
\* AsmError, leaves CF set and leaves the destination register and IP as
\* they were.
C15_DivisionByZero ==
  ZeroDivisor
  => /\ err.name = "AsmError"
     /\ err.message = "Division by zero"
     /\ err.line = Fetched.line
     /\ cpu.F.CF
     /\ cpu.IP = pre.cpu.IP
     /\ cpu.R = pre.cpu.R /\ cpu.SP = pre.cpu.SP /\ cpu.BP = pre.cpu.BP
     /\ cpu.hi = pre.cpu.hi

\* DIV R0, #0 with the carry flag clear before it
C15_Witness ==
  /\ ZeroDivisor
  /\ Fetched.operands[1].type = "reg"
  /\ ~pre.cpu.F.CF
  /\ cpu.F.CF
  /\ err.message = "Division by zero"

\* C16: R0..R7, SP and BP always hold a signed 32-bit value; arithmetic
\* on SP and BP wraps as it does on R0..R7.
C16_RegistersStayInt32 ==
  /\ \A i \in 0..7 : cpu.R[i] >= INT32_MIN /\ cpu.R[i] <= INT32_MAX
  /\ cpu.hi.SP = 0
  /\ cpu.hi.BP = 0

\* the instruction set the README and the specification document
DocumentedOpcodes ==
  {"MOV", "LOAD", "STORE", "LEA", "ADD", "SUB", "MUL", "DIV", "INC", "DEC",
   "AND", "OR", "XOR", "NOT", "SHL", "SHR", "CMP", "JMP", "JZ", "JNZ", "JC",
   "JNC", "JN", "JNN", "JG", "JGE", "JL", "JLE", "PUSH", "POP", "CALL", "RET",
   "NOP", "HALT", "SYS"}

\* C17: a step on an instruction whose opcode is documented never fails
\* with the unknown-instruction error; only other opcodes raise it.
C17_DocumentedOpcodesExecute ==
  (Stepping /\ err.message = "Unknown instruction")
  => Fetched.op \notin DocumentedOpcodes

\* C18: when run is called with an onSys handler, the handler is invoked
\* once for every SYS 1, 2 or 3 the run executes, with its code, in
\* program order (the handler has no part in step, so the CPU state of
\* the run is the same with and without it).
C18_SyscallHookInvoked ==
  (last.call = "runReturn" /\ run.onSys) => run.handled = run.sys

\* the last step executed STORE [N], src with N >= 0 and src resolved
StoreAbsolute ==
  /\ Stepping
  /\ last.op = "STORE"
  /\ Len(Fetched.source) = 2
  /\ Fetched.source[1].kind = "[n]"
  /\ Fetched.source[1].n >= 0
  /\ resolveOperand(Fetched.operands[2], pre.cpu, pre.ram, program.labels).msg = ""

\* the step failed with an out-of-bounds error and wrote no byte
StoreRejected ==
  /\ err.name = "AsmError"
  /\ err.message \in OutOfBoundsMessages
  /\ ram = pre.ram

\* C19: STORE [4090], R0 on the 4096-byte memory fails the bounds check
\* with an out-of-bounds error and writes no byte.
C19_StoreAt4090Fails ==
  (StoreAbsolute /\ Fetched.source[1].n = 4090 /\ Fetched.source[2].kind = "reg")
  => StoreRejected

\* C19, amended: STORE [N], src fails the bounds check exactly when
\* N + 4 > 4096, so STORE [4093], R0 fails with an out-of-bounds error and
\* writes no byte, while STORE [4090], R0 and STORE [4092], R0 succeed and
\* write the little-endian word at N..N+3 and no other byte.
C19_StoreBounds ==
  StoreAbsolute
  => IF Fetched.source[1].n + 4 > RAM_SIZE
       THEN StoreRejected
       ELSE /\ err = NoError
            /\ HoldsWord(ram, Fetched.source[1].n,
                         resolveOperand(Fetched.operands[2], pre.cpu, pre.ram,
                                        program.labels).val)
            /\ SameBut(pre.ram, ram, Fetched.source[1].n)

\* STORE [4093], R0 with R0 = -2 is rejected
C19_Witness ==
  /\ StoreAbsolute
  /\ Fetched.source[1].n = 4093
  /\ pre.cpu.R[0] = -2
  /\ StoreRejected
  /\ cpu.IP = pre.cpu.IP

\* handleAssemble has produced the program from the source
JustAssembled == last.call = "assemble" /\ err = NoError

\* the lines that define a label, and the last line that defines name
LabelLines == {k \in 1..Len(source) : source[k].kind = "label"}

Defines(k) == \A j \in LabelLines : source[j].name = source[k].name => j <= k

\* line k lies in a data section: the last section directive above it, if
\* there is one, is .DATA
SectionLines(k) == {j \in 1..(k - 1) : source[j].kind = "dir" /\ source[j].cmd \in {".DATA", ".TEXT"}}

InData(k) ==
  \E j \in SectionLines(k) : source[j].cmd = ".DATA" /\ \A h \in SectionLines(k) : h <= j

\* the number of bytes line j adds to the data image
BytesOf(j) ==
  CASE source[j].kind = "dir" /\ source[j].cmd = ".WORD" /\ InData(j)  -> 4 * Len(source[j].args)
    [] source[j].kind = "dir" /\ source[j].cmd = ".BYTE" /\ InData(j)  -> Len(source[j].args)
    [] source[j].kind = "label" /\ source[j].cmd = ".WORD"             -> 4 * Len(source[j].args)
    [] OTHER -> 0

RECURSIVE BytesBefore(_)
BytesBefore(k) == IF k <= 1 THEN 0 ELSE BytesBefore(k - 1) + BytesOf(k - 1)

\* the indices, in the instruction list, of the instructions below line k
Following(k) == {e \in 0..(Len(program.ast) - 1) : program.ast[e + 1].line > k}

\* C20: after assemble, every text-section label maps to the index in the
\* instruction list of the first instruction that follows its definition,
\* and every data-section label to the offset in the data image of the
\* next byte emitted, whatever directives the source uses.
C20_LabelTable ==
  JustAssembled
  => \A k \in LabelLines :
       Defines(k)
       => /\ HasLabel(program.labels, source[k].name)
          /\ InData(k) => program.labels[source[k].name] = BytesBefore(k)
          /\ (~InData(k) /\ Following(k) # {})
               => /\ program.labels[source[k].name] \in Following(k)
                  /\ \A e \in Following(k) : program.labels[source[k].name] <= e

\* the operand tokens written on line k of the source
Written(k) ==
  IF source[k].kind = "instr" THEN source[k].tokens
  ELSE [j \in 1..Len(source[k].args) |-> ValueToken(source[k].args[j])]

\* the lines pass 2 parses operands from
Parsed == {k \in 1..Len(source) : ~Skipped(source[k])}

\* C21: in an assembled program every instruction carries the operands
\* parsed from the tokens of the source line in its line field, and pass 2
\* has processed as many lines as pass 1 created skeletons.
C21_OperandsOfOwnLine ==
  JustAssembled
  => /\ Cardinality(Parsed) = Len(program.ast)
     /\ \A e \in 1..Len(program.ast) :
          program.ast[e].operands = ParseOperands(Written(program.ast[e].line))

\* an operand that still names a label
Unresolved(operand) ==
  operand.type = "label" \/ (operand.type = "mem" /\ IsString(operand))

\* C22: no operand of an assembled program is an unresolved label: none
\* has the label kind and no memory operand holds a label name.
C22_NoUnresolvedLabel ==
  program.assembled
  => \A e \in 1..Len(program.ast) :
       \A j \in 1..Len(program.ast[e].operands) : ~Unresolved(program.ast[e].operands[j])

\* the values of the .WORD directives that emit, in source order
RECURSIVE WordsFrom(_)
WordsFrom(k) ==
  IF k > Len(source) THEN << >>
  ELSE IF BytesOf(k) > 0 /\ source[k].cmd = ".WORD" THEN source[k].args \o WordsFrom(k + 1)
  ELSE WordsFrom(k + 1)

\* every byte of the data image comes from a .WORD directive
OnlyWords == \A k \in 1..Len(source) : BytesOf(k) > 0 => source[k].cmd = ".WORD"

\* byte a of the data image: a Uint8Array of DATA_SIZE zeros under the
\* bytes emitted
ImageByte(data, a) == IF a < Len(data) THEN data[a + 1] ELSE 0

\* the little-endian signed 32-bit word at offset a of the data image is v
ImageWord(data, a, v) ==
  /\ a >= 0 /\ a + 3 < DATA_SIZE
  /\ v = ImageByte(data, a) + 256 * ImageByte(data, a + 1) + 65536 * ImageByte(data, a + 2)
         + 16777216 * (IF ImageByte(data, a + 3) >= 128 THEN ImageByte(data, a + 3) - 256
                                                         ELSE ImageByte(data, a + 3))

\* C23: the words v1..vn emitted by .WORD directives are read back from the
\* data image as little-endian 32-bit words at offsets 0, 4, ..., 4(n-1).
C23_WordRoundTrip ==
  (JustAssembled /\ OnlyWords)
  => \A i \in 1..Len(WordsFrom(1)) :
       ImageWord(program.dataSection, 4 * (i - 1), WordsFrom(1)[i].n)

ValueDirectives == {".WORD", ".BYTE", ".ORG"}

\* line k is a .WORD, .BYTE or .ORG directive, on its own or after a
\* label, with a value that is not an integer
NonInteger(k) ==
  /\ source[k].kind \in {"dir", "label"}
  /\ source[k].cmd \in ValueDirectives
  /\ \E j \in 1..Len(source[k].args) : source[k].args[j].nan

\* no line above k is a value directive that is malformed in any way
FirstMalformed(k) ==
  /\ NonInteger(k)
  /\ \A j \in 1..(k - 1) :
       source[j].cmd \in ValueDirectives => (source[j].args # << >> /\ ~NonInteger(j))

\* C24: a .WORD, .BYTE or .ORG directive on line k whose value is not an
\* integer makes assemble fail with an error of line k and no Program, in
\* whichever section the line is.
C24_NonIntegerValueFails ==
  last.call = "assemble"
  => \A k \in 1..Len(source) :
       FirstMalformed(k)
       => /\ err.name = "AsmError"
          /\ err.line = k
          /\ ~program.assembled

\* the token names a register that does not exist
InvalidRegister(token) ==
  token.kind \in {"reg", "[r]", "[r+n]"} /\ token.reg \notin DOMAIN REGISTERS

\* line k is an instruction with such an operand
UsesInvalidRegister(k) ==
  /\ source[k].kind = "instr"
  /\ \E j \in 1..Len(source[k].tokens) : InvalidRegister(source[k].tokens[j])

\* the source consists of section directives, labels on lines of their
\* own and instructions
PlainSource ==
  \A k \in 1..Len(source) :
    \/ source[k].kind \in {"blank", "instr"}
    \/ source[k].kind = "dir" /\ source[k].cmd \in {".DATA", ".TEXT"}
    \/ source[k].kind = "label" /\ source[k].cmd = "" /\ source[k].op = ""

\* C25: an instruction on line k with an operand that names a register
\* outside R0..R7, SP, BP makes assemble fail with an error of line k.
C25_InvalidRegisterFails ==
  (last.call = "assemble" /\ PlainSource)
  => \A k \in 1..Len(source) :
       (UsesInvalidRegister(k) /\ \A j \in 1..(k - 1) : ~UsesInvalidRegister(j))
       => /\ err.name = "AsmError"
          /\ err.line = k
          /\ ~program.assembled

\* the tokens of a line up to the comment marker
RECURSIVE Uncommented(_)
Uncommented(tokens) ==
  IF tokens = << >> THEN << >>
  ELSE IF Head(tokens).kind = "label" /\ Head(tokens).name \in {";", "//"} THEN << >>
  ELSE <<Head(tokens)>> \o Uncommented(Tail(tokens))

\* C26: an instruction line that ends in a ; or // comment assembles to
\* the opcode and the operand list of the line without the comment.
C26_CommentsIgnored ==
  (JustAssembled /\ PlainSource)
  => \A e \in 1..Len(program.ast) :
       /\ program.ast[e].op = source[program.ast[e].line].op
       /\ program.ast[e].operands = ParseOperands(Uncommented(source[program.ast[e].line].tokens))

\* C27: the sum-array program assembles, and run from reset with its data
\* image loaded at address 0 it ends halted with R0 = 15.
C27_SumArray ==
  (source = SumArray /\ last.call # "init")
  => /\ program.assembled
     /\ err = NoError
     /\ cpu.halted => cpu.R[0] = 15

\* C28: the factorial program with input 5 assembles, and run from reset it
\* ends halted with R0 = 120 and the stack pointer at its depth before the
\* outermost CALL.
C28_Factorial ==
  (source = Factorial /\ last.call # "init")
  => /\ program.assembled
     /\ err = NoError
     /\ cpu.halted => (cpu.R[0] = 120 /\ cpu.SP = reset.SP)

\* C29: CMP changes the flags and the instruction pointer only: R0..R7,
\* SP, BP, halted and every memory byte are as before the step, whatever
\* the kinds of the operands; IP advances by one unless the step fails.
C29_CmpFrame ==
  (Stepping /\ last.op = "CMP")
  => /\ cpu.R = pre.cpu.R
     /\ cpu.SP = pre.cpu.SP /\ cpu.BP = pre.cpu.BP /\ cpu.hi = pre.cpu.hi
     /\ cpu.halted = pre.cpu.halted
     /\ ram = pre.ram
     /\ cpu.IP = IF err = NoError THEN pre.cpu.IP + 1 ELSE pre.cpu.IP

C29_Witness ==
  /\ Stepping /\ last.op = "CMP" /\ err = NoError
  /\ Fetched.operands[1].type = "mem" /\ Fetched.operands[2].type = "label"
  /\ cpu.F # pre.cpu.F
  /\ cpu.IP = pre.cpu.IP + 1

\* the operands the CMP just executed has compared
Left == resolveOperand(Fetched.operands[1], pre.cpu, pre.ram, program.labels).val

Right == resolveOperand(Fetched.operands[2], pre.cpu, pre.ram, program.labels).val

\* C30: after CMP a, b, whatever flags earlier instructions have left, JG
\* is taken exactly when a > b, JGE when a >= b, JL when a < b, JLE when
\* a <= b and JZ when a = b.
C30_SignedComparison ==
  (Stepping /\ err = NoError /\ last.op = "CMP")
  => /\ Taken("JG", cpu.F)  <=> Left > Right
     /\ Taken("JGE", cpu.F) <=> Left >= Right
     /\ Taken("JL", cpu.F)  <=> Left < Right
     /\ Taken("JLE", cpu.F) <=> Left <= Right
     /\ Taken("JZ", cpu.F)  <=> Left = Right

\* C31: after ADD, SUB, MUL, INC or DEC on R0..R7 the zero flag tells
\* whether the 32-bit value now in the destination is 0 and the negative
\* flag whether it is negative, also when the exact result overflows.
C31_FlagsOfStoredValue ==
  ( /\ Stepping /\ err = NoError
    /\ last.op \in {"ADD", "SUB", "MUL", "INC", "DEC"}
    /\ Dest \in 0..7 )
  => /\ cpu.F.ZF <=> cpu.R[Dest] = 0
     /\ cpu.F.NF <=> cpu.R[Dest] < 0

\* the operands of the DIV the last step executed
Dividend == ReadReg(pre.cpu, Dest)

Divisor == resolveOperand(Fetched.operands[2], pre.cpu, pre.ram, program.labels).val

\* DIV has stored a quotient
Divided ==
  /\ Stepping /\ err = NoError /\ last.op = "DIV"
  /\ ~Wide(pre.cpu)

\* the quotient 2147483648 of -2147483648 by -1 is no signed 32-bit value
QuotientOverflows(a, b) == a = INT32_MIN /\ b = -1

\* a / b rounded toward negative infinity, b # 0, from the quotient of
\* natural numbers
Quotient(a, b) ==
  CASE b = INT32_MIN  -> (IF a = INT32_MIN THEN 1 ELSE IF a > 0 THEN -1 ELSE 0)
    [] a >= 0 /\ b > 0 -> a \div b
    [] a < 0 /\ b > 0  -> -((-(a + 1)) \div b) - 1
    [] a = 0 /\ b < 0  -> 0
    [] a > 0 /\ b < 0  -> -((a - 1) \div (-b)) - 1
    [] OTHER           -> ((-(a + 1)) \div (-b))
                            + (IF (-(a + 1)) % (-b) = (-b) - 1 THEN 1 ELSE 0)

\* C32 as stated: DIV stores the quotient rounded toward negative infinity
\* for all signed 32-bit operands with a divisor other than 0.
C32_DivFloor ==
  Divided
  => /\ ~QuotientOverflows(Dividend, Divisor)
     /\ ReadReg(cpu, Dest) = Quotient(Dividend, Divisor)

\* C32: DIV stores the quotient rounded toward negative infinity, except
\* that -2147483648 divided by -1 leaves -2147483648 in a general register.
C32_DivFloorWrapped ==
  Divided
  => IF QuotientOverflows(Dividend, Divisor)
       THEN Dest \in 0..7 => cpu.R[Dest] = INT32_MIN
       ELSE ReadReg(cpu, Dest) = Quotient(Dividend, Divisor) /\ ~Wide(cpu)

C32_Witness ==
  /\ Divided
  /\ Dividend = -7 /\ Divisor = 2
  /\ cpu.R[Dest] = -4

\* the last step was a PUSH that succeeded and the instruction now at IP
\* is a POP into a register
PushedBeforePop ==
  /\ Stepping /\ err = NoError /\ last.op = "PUSH"
  /\ InList(cpu.IP)
  /\ program.ast[cpu.IP + 1].op = "POP"
  /\ Len(program.ast[cpu.IP + 1].operands) = 1
  /\ program.ast[cpu.IP + 1].operands[1].type = "reg"

\* the value src had at the PUSH, and the destination of the POP
Pushed == resolveOperand(Fetched.operands[1], pre.cpu, pre.ram, program.labels).val

PopDest == program.ast[cpu.IP + 1].operands[1].value

\* the step st of the POP completes the round trip of the PUSH
RoundTrip(st) ==
  /\ st.err = NoError
  /\ ReadReg(st.cpu, PopDest) = Pushed
  /\ st.cpu.SP = pre.cpu.SP
  /\ SameBut(pre.ram, st.ram, pre.cpu.SP - 4)

\* the same with the stack pointer as the destination of the POP
RoundTripIntoSP(st) ==
  /\ st.err = NoError
  /\ st.cpu.SP = Pushed
  /\ SameBut(pre.ram, st.ram, pre.cpu.SP - 4)

\* the POP refuses a stack pointer at or above the reset value
Underflow(st) ==
  /\ st.err.name = "AsmError" /\ st.err.message = "Stack underflow"
  /\ st.cpu = cpu /\ st.ram = ram

\* C33 as stated: from any state in which PUSH src succeeds, PUSH src and
\* then POP dst leave dst equal to the value pushed, SP as before the PUSH
\* and memory unchanged outside the four bytes at old SP - 4.
C33_PushPopRoundTrip ==
  PushedBeforePop => RoundTrip(step(cpu, program, ram))

\* C33: the round trip holds when the PUSH leaves the stack pointer below
\* its reset value; a POP into SP leaves the value pushed in SP; when the
\* PUSH leaves the stack pointer at or above the reset value the POP fails
\* with a stack underflow and changes nothing.
C33_PushPopBelowBase ==
  PushedBeforePop
  => IF cpu.SP >= RAM_SIZE - 4 THEN Underflow(step(cpu, program, ram))
     ELSE IF PopDest = -1 THEN RoundTripIntoSP(step(cpu, program, ram))
     ELSE RoundTrip(step(cpu, program, ram))

C33_Witness ==
  /\ Stepping /\ err = NoError /\ last.op = "POP"
  /\ InList(pre.cpu.IP - 1)
  /\ program.ast[pre.cpu.IP].op = "PUSH"
  /\ cpu.R[3] = -2
  /\ cpu.SP = RAM_SIZE - 4
  /\ ram # createRAM

\* the instructions that assign to their first operand
SPWriters == {"MOV", "LOAD", "ADD", "SUB", "MUL", "DIV", "INC", "DEC", "LEA", "POP"}

\* the program changes SP only through PUSH, POP, CALL and RET: no
\* instruction has SP as the operand it assigns to
StackOnly ==
  /\ program.assembled
  /\ \A i \in 1..Len(program.ast) :
       ~ /\ program.ast[i].op \in SPWriters
         /\ Len(program.ast[i].operands) >= 1
         /\ program.ast[i].operands[1].type = "reg"
         /\ program.ast[i].operands[1].value = -1

\* the last step executed a PUSH or CALL, or a POP or RET, of the right
\* arity whose operand is a register, an immediate or a defined label
StackStep(ops) ==
  /\ Stepping /\ last.op \in ops
  /\ \A k \in 1..Len(Fetched.operands) :
       \/ Fetched.operands[k].type \in {"reg", "imm"}
       \/ /\ Fetched.operands[k].type = "label"
          /\ HasLabel(program.labels, Fetched.operands[k].name)

\* C34: in a program that changes SP only through PUSH, POP, CALL and RET,
\* SP is always a multiple of 4 in 0..4092; a PUSH or CALL with no room
\* below SP fails with a stack overflow, and a POP or RET at the reset
\* stack pointer fails with a stack underflow.
C34_StackDiscipline ==
  StackOnly
  => /\ cpu.SP >= 0 /\ cpu.SP <= RAM_SIZE - 4 /\ cpu.SP % 4 = 0
     /\ ( /\ StackStep({"PUSH", "CALL"}) /\ Len(Fetched.operands) = 1
          /\ pre.cpu.SP < 4 )
        => err.message = "Stack overflow"
     /\ ( /\ StackStep({"POP"}) /\ Len(Fetched.operands) = 1
          /\ pre.cpu.SP = RAM_SIZE - 4 )
        => err.message = "Stack underflow" /\ cpu = pre.cpu /\ ram = pre.ram
     /\ (StackStep({"RET"}) /\ pre.cpu.SP = RAM_SIZE - 4)
        => err.message = "Stack underflow" /\ cpu = pre.cpu /\ ram = pre.ram

\* operand k of the instruction fetched names a label that is not in the
\* label table: as a value (kind 'label') or as an address (kind 'mem')
Absent(k, type) ==
  /\ Len(Fetched.operands) >= k
  /\ Fetched.operands[k].type = type
  /\ IsString(Fetched.operands[k])
  /\ ~HasLabel(program.labels, Fetched.operands[k].name)

\* the instruction fetched transfers control: a JMP, a CALL or a
\* conditional jump whose condition held
Jumps ==
  \/ Fetched.op \in {"JMP", "CALL"}
  \/ /\ Fetched.op \in {"JZ", "JNZ", "JC", "JNC", "JG", "JGE", "JL", "JLE"}
     /\ Taken(Fetched.op, pre.cpu.F)

\* the last step fetched an instruction of the right arity that uses an
\* absent label as a value, as a LOAD source or as a STORE destination
UsesAbsentLabel ==
  /\ Stepping /\ InList(last.addr)
  /\ \/ Fetched.op \in {"MOV", "LEA"} /\ Len(Fetched.operands) = 2 /\ Absent(2, "label")
     \/ Jumps /\ Len(Fetched.operands) = 1 /\ Absent(1, "label")
     \/ Fetched.op = "LOAD" /\ Len(Fetched.operands) = 2 /\ Absent(2, "mem")
     \/ Fetched.op = "STORE" /\ Len(Fetched.operands) = 2 /\ Absent(1, "mem")

\* C35: an instruction that refers to a label absent from the label table
\* fails with an AsmError reporting the undefined label and changes no
\* memory, whether the label is a value, a LOAD source or a STORE destination.
C35_UndefinedLabelFails ==
  UsesAbsentLabel
  => /\ err.name = "AsmError" /\ err.message = "Undefined label"
     /\ ram = pre.ram

\* the lines 'name: cmd v1, ..., vn' of a data section whose values are
\* all integers
ValueLines(cmd) ==
  {k \in 1..Len(source) :
     /\ source[k].kind = "label" /\ source[k].cmd = cmd /\ InData(k)
     /\ \A j \in 1..Len(source[k].args) : ~source[k].args[j].nan}

\* pass 1 over the first k lines of the source
Upto(k) == Pass1(Pass1Init, SubSeq(source, 1, k), 1)

\* line k, which pass 1 reaches in the state before with the data pointer
\* d, records its label at d and emits its n values of size bytes each
EmittedInline(k, before, after, size) ==
  before.err = NoError
  => /\ after.err = NoError
     /\ HasLabel(after.labels, source[k].name)
     /\ after.labels[source[k].name] = before.dataPtr
     /\ after.dataPtr = before.dataPtr + size * Len(source[k].args)
     /\ Len(after.data) = after.dataPtr
     /\ SubSeq(after.data, before.dataPtr + 1, after.dataPtr)
          = AllBytes(source[k].args, size)

\* C36: in the data section, 'name: .BYTE b1, ..., bn' records name at the
\* data offset d, writes b1..bn at the offsets d..d+n-1 of the data image
\* and advances the data pointer by n.
C36_ByteAfterLabel ==
  last.call = "assemble"
  => \A k \in ValueLines(".BYTE") : EmittedInline(k, Upto(k - 1), Upto(k), 1)

\* the last step executed a SYS instruction whose one operand resolved
SysStep ==
  /\ Stepping /\ InList(last.addr)
  /\ Fetched.op = "SYS" /\ Len(Fetched.operands) = 1
  /\ resolveOperand(Fetched.operands[1], pre.cpu, pre.ram, program.labels).msg = ""

\* the syscall code it resolved to
Code == resolveOperand(Fetched.operands[1], pre.cpu, pre.ram, program.labels).val

Sys(codes) == SysStep /\ Code \in codes

\* C37: SYS 1 and SYS 2 change nothing but the instruction pointer; SYS 3
\* sets halted with R0 unchanged; SYS with any other code fails and does
\* not halt the CPU.
C37_SysFrame ==
  /\ Sys({1, 2})
     => /\ [cpu EXCEPT !.IP = pre.cpu.IP] = pre.cpu
        /\ ram = pre.ram
        /\ err = NoError => cpu.IP = pre.cpu.IP + 1
  /\ Sys({3})
     => /\ err = NoError /\ cpu.halted
        /\ cpu.R[0] = pre.cpu.R[0]
        /\ [cpu EXCEPT !.IP = pre.cpu.IP, !.halted = FALSE] = pre.cpu
        /\ ram = pre.ram
  /\ (SysStep /\ Code \notin {1, 2, 3})
     => /\ err.name = "AsmError" /\ err.message = "Unknown syscall"
        /\ ~cpu.halted /\ cpu = pre.cpu /\ ram = pre.ram

\* SYS 2 has printed a string that is not empty
C37_Witness ==
  /\ Sys({2}) /\ err = NoError
  /\ cpu.IP = pre.cpu.IP + 1
  /\ getUint8(ram, cpu.R[1]) # 0

\* run is in its loop, has executed nothing yet, and stands on a breakpoint
\* with a CPU that is not halted
EnteredOnBreakpoint ==
  /\ run.pc = "loop" /\ run.steps = 0
  /\ ~cpu.halted
  /\ cpu.IP \in run.breakpoints

\* run has returned on a breakpoint and is called again with the same set
CalledAgain ==
  /\ last.call = "runReturn" /\ ~cpu.halted
  /\ cpu.IP \in run.breakpoints
  /\ run'.pc = "loop" /\ run'.breakpoints = run.breakpoints

\* C38: a run entered with the instruction pointer on a breakpoint executes
\* no step, returns 0 and leaves the CPU and the memory as they are; a
\* further call with the same breakpoints starts from the same state.
C38_NoStepPastBreakpoint ==
  [][ /\ EnteredOnBreakpoint
         => /\ run'.pc = "idle" /\ run'.result = 0
            /\ last'.call = "runReturn"
            /\ cpu' = cpu /\ ram' = ram /\ err' = err
      /\ CalledAgain
         => /\ cpu' = cpu /\ ram' = ram
            /\ run'.steps = 0 ]_vars

\* a second run on the breakpoint the first one stopped on has returned 0
C38_Witness ==
  /\ last.call = "runReturn"
  /\ run.result = 0 /\ run.maxSteps > 0
  /\ ~cpu.halted
  /\ cpu.IP \in run.breakpoints
  /\ cpu.IP > 0 /\ InList(cpu.IP)
  /\ clock > 0

\* C39: at most one initialization is in flight at any time; every call
\* made while one is in flight receives the promise of that one; once an
\* initialization has succeeded every later call returns the one cached
\* instance and starts no other initialization.
C39_InitializedOnce ==
  /\ Cardinality({i \in 1..Len(inits) : InFlight(inits[i])}) <= 1
  /\ \A c \in 1..Len(calls) :
       calls[c].inFlight # {}
       => calls[c].kind = "promise" /\ calls[c].inFlight = {calls[c].id}
  /\ \A c \in 1..Len(calls) :
       calls[c].cached # 0
       => /\ calls[c].kind = "instance" /\ calls[c].id = calls[c].cached
          /\ \A d \in 1..Len(calls) : calls[d].kind = "instance" => calls[d].id = calls[c].id
  /\ Cardinality({i \in 1..Len(inits) : inits[i] = "fulfilled"}) <= 1
  /\ pyodideInstance # 0
     => /\ inits[pyodideInstance] = "fulfilled"
        /\ \A i \in 1..Len(inits) : i <= pyodideInstance

\* two calls have joined one initialization in flight, it has succeeded,
\* and a later call has received the cached instance
C39_Witness ==
  /\ Len(calls) >= 3
  /\ calls[1].kind = "promise" /\ calls[2].kind = "promise"
  /\ calls[2].id = calls[1].id /\ calls[2].inFlight = {calls[1].id}
  /\ calls[Len(calls)].kind = "instance"
  /\ calls[Len(calls)].id = calls[1].id
  /\ pyodideInstance = calls[1].id

====
